---- MODULE Spec2Model ----
(***************************************************************************)
(* The transactions Lambda handler of the family-budget backend            *)
(* (backend/src/assets/lambdas/transactions-handler.ts) over its DynamoDB  *)
(* table.  An invocation runs from the arrival of an APIGatewayProxyEvent  *)
(* to the APIGatewayProxyResult it returns; it gives up control only at    *)
(* the store calls it awaits, so each action below is the code between two *)
(* awaits together with the store call that ends it.                        *)
(*                                                                         *)
(* JavaScript objects are records; a property that is undefined is a field *)
(* that is not in the record's DOMAIN.                                     *)
(***************************************************************************)
EXTENDS Integers, Sequences, FiniteSets, TLC

VARIABLES
    store,      \* the table: a set of items, at most one per (account, transactionId)
    nextUuid,   \* how many values uuidv4() has returned
    pc,         \* per invocation: the await the handler is suspended at
    event,      \* per invocation: the event being handled
    local,      \* per invocation: the handler's local variables
    resp,       \* per invocation: the result returned for the event
    calls,      \* per invocation: the store commands sent for the event, in order
    before,     \* per invocation: the table as it was when the event arrived
    served,     \* how many events have been accepted
    tables      \* the tables of the accounts and the categories handlers

vars == <<store, nextUuid, pc, event, local, resp, calls, before, served, tables>>

(***************************************************************************)
(* Bounds of the model.                                                    *)
(***************************************************************************)
MaxRequests == 2

Invocations == {"inv1", "inv2"}
Sequential == {"inv1"}

Accounts == {"acc1", "acc2"}
Dates == {"2024-03-15"}
Descriptions == {"groceries"}
Currencies == {"GBP", "EUR"}
Amounts == {-50, 20}

(***************************************************************************)
(* JavaScript helpers.                                                     *)
(***************************************************************************)
Has(o, f) == f \in DOMAIN o

\* !o.f is false: for a string property, defined and not ''
TruthyStr(o, f) == Has(o, f) /\ o[f] # ""

\* !o.f is false: for a number property, defined and not 0
TruthyNum(o, f) == Has(o, f) /\ o[f] # 0

Abs(x) == IF x < 0 THEN -x ELSE x

\* { ...r, ...u }
Merge(r, u) ==
    [f \in DOMAIN r \cup DOMAIN u |-> IF f \in DOMAIN u THEN u[f] ELSE r[f]]

Uuid(n) == "uuid-" \o ToString(n)

(***************************************************************************)
(* Responses.                                                              *)
(***************************************************************************)
corsHeaders ==
    [ContentType |-> "application/json",
     AccessControlAllowOrigin |-> "*",
     AccessControlAllowHeaders |-> "Content-Type",
     AccessControlAllowMethods |-> "GET,POST,PUT,DELETE,OPTIONS"]

Response(status, body) ==
    [statusCode |-> status, headers |-> corsHeaders, body |-> body]

ErrorBody(msg) == [error |-> msg]

\* the handler's catch: whatever an operation throws
InternalError == Response(500, ErrorBody("Internal server error"))

\* no early return: the operation goes on to its store calls
Pass == [pass |-> TRUE]

NoResponse == [none |-> TRUE]
NoLocals == [none |-> TRUE]
NoEvent == [none |-> TRUE]

(***************************************************************************)
(* The table.                                                              *)
(***************************************************************************)
KeyOf(item) == <<item.account, item.transactionId>>

ItemsAt(s, account, transactionId) ==
    {r \in s : r.account = account /\ r.transactionId = transactionId}

\* PutCommand: creates the item or replaces the one with the same key
PutItem(s, item) == {r \in s : KeyOf(r) # KeyOf(item)} \cup {item}

\* variant: the delete takes the items that share the transferId with it
DeleteItemCascading(s, account, transactionId) ==
    {r \in s :
        /\ KeyOf(r) # <<account, transactionId>>
        /\ \A q \in ItemsAt(s, account, transactionId) :
               ~(\E f \in DOMAIN q \cap DOMAIN r : f = "transferId" /\ q[f] = r[f])}

\* DeleteCommand
DeleteItem(s, account, transactionId) == s \ ItemsAt(s, account, transactionId)

\* UpdateCommand with a SET expression: DynamoDB creates the item when the
\* key is absent (no ConditionExpression is given)
UpdatedItem(s, account, transactionId, sets) ==
    LET old == ItemsAt(s, account, transactionId)
        base == IF old = {}
                THEN [account |-> account, transactionId |-> transactionId]
                ELSE CHOOSE r \in old : TRUE
    IN  Merge(base, sets)

UpdateItem(s, account, transactionId, sets) ==
    PutItem(s, UpdatedItem(s, account, transactionId, sets))

\* the document client refuses to marshal an item with an undefined value
Marshallable(item, fields) == \A f \in fields : Has(item, f)

(***************************************************************************)
(* Events.                                                                 *)
(***************************************************************************)
NoBody == [kind |-> "none"]
Malformed == [kind |-> "malformed"]
Json(v) == [kind |-> "json", val |-> v]

Event(method, path, transactionId, account, body) ==
    [httpMethod |-> method, path |-> path,
     pathParameters |-> IF transactionId = "" THEN [none |-> TRUE]
                        ELSE [transactionId |-> transactionId],
     queryStringParameters |-> IF account = "" THEN [none |-> TRUE]
                               ELSE [account |-> account],
     body |-> body]

\* Without(o, f): the object o with property f undefined
Without(o, f) == [g \in DOMAIN o \ {f} |-> o[g]]

(***************************************************************************)
(* Invocations.                                                            *)
(***************************************************************************)
\* an event is accepted by an invocation that is not handling one
Accepts(p) == pc[p] = "idle" /\ served < MaxRequests

\* the invocation returns r without (further) store calls
Return(p, ev, r) ==
    /\ pc' = [pc EXCEPT ![p] = "done"]
    /\ event' = [event EXCEPT ![p] = ev]
    /\ resp' = [resp EXCEPT ![p] = r]
    /\ local' = [local EXCEPT ![p] = NoLocals]

\* the invocation suspends at the await named at, holding locals l
Await(p, ev, at, l) ==
    /\ pc' = [pc EXCEPT ![p] = at]
    /\ event' = [event EXCEPT ![p] = ev]
    /\ resp' = [resp EXCEPT ![p] = NoResponse]
    /\ local' = [local EXCEPT ![p] = l]

Arrive(p) ==
    /\ served' = served + 1
    /\ calls' = [calls EXCEPT ![p] = <<>>]
    /\ before' = [before EXCEPT ![p] = store]

Sent(p, cmd, ok) == calls' = [calls EXCEPT ![p] = Append(@, [cmd |-> cmd, ok |-> ok])]

(***************************************************************************)
(* The handler's routing: switch (method) and the tests of path.           *)
(* A path is the sequence of its segments.                                 *)
(***************************************************************************)
\* path.startsWith('/transactions/')
UnderTransactions(path) == Len(path) >= 2 /\ path[1] = "transactions"

\* path.endsWith('/convert-to-transfer')
EndsWithConvert(path) == Len(path) >= 2 /\ path[Len(path)] = "convert-to-transfer"

Route(ev) ==
    LET method == ev.httpMethod
        path == ev.path
    IN  CASE method = "OPTIONS" -> "options"
          [] method = "POST" ->
                IF path = <<"transactions">> THEN "createTransaction"
                ELSE IF path = <<"transactions", "transfer">> THEN "createTransfer"
                ELSE "notFound"
          [] method = "GET" ->
                IF path = <<"transactions">> THEN "getTransactions"
                ELSE IF UnderTransactions(path) THEN "getTransaction"
                ELSE "notFound"
          [] method = "PUT" ->
                IF UnderTransactions(path) /\ EndsWithConvert(path)
                THEN "convertTransactionToTransfer"
                ELSE IF UnderTransactions(path) THEN "updateTransaction"
                ELSE "notFound"
          [] method = "DELETE" ->
                IF UnderTransactions(path) THEN "deleteTransaction"
                ELSE "notFound"
          [] OTHER -> "methodNotAllowed"

\* the three results the handler returns itself
HandlerResult(route) ==
    CASE route = "options" -> Response(200, "")
      [] route = "methodNotAllowed" -> Response(405, ErrorBody("Method not allowed"))
      [] OTHER -> Response(404, ErrorBody("Not found"))

Handler(p, ev) ==
    /\ Accepts(p)
    /\ Route(ev) \in {"options", "methodNotAllowed", "notFound"}
    /\ Arrive(p)
    /\ Return(p, ev, HandlerResult(Route(ev)))
    /\ UNCHANGED <<store, nextUuid>>

\* the result has been returned; the function instance is free for the next event
Complete(p) ==
    /\ pc[p] = "done"
    /\ pc' = [pc EXCEPT ![p] = "idle"]
    /\ event' = [event EXCEPT ![p] = NoEvent]
    /\ local' = [local EXCEPT ![p] = NoLocals]
    /\ resp' = [resp EXCEPT ![p] = NoResponse]
    /\ calls' = [calls EXCEPT ![p] = <<>>]
    /\ before' = [before EXCEPT ![p] = {}]
    /\ UNCHANGED <<store, nextUuid, served>>

\* an awaited store call has settled and the operation returns r
Settle(p, r) ==
    /\ pc' = [pc EXCEPT ![p] = "done"]
    /\ resp' = [resp EXCEPT ![p] = r]

(***************************************************************************)
(* createTransfer                                                          *)
(***************************************************************************)
\* the required fields of a transfer are all given and not empty
TransferFieldsGiven(d) ==
    /\ TruthyStr(d, "fromAccount") /\ TruthyStr(d, "toAccount")
    /\ TruthyNum(d, "amount") /\ TruthyStr(d, "date")
    /\ TruthyStr(d, "description")

MissingTransferFields ==
    Response(400, ErrorBody(
        "Missing required fields: fromAccount, toAccount, amount, date, description"))

\* variant: the same-account test is left out
CreateTransferCheckSameAllowed(ev) ==
    IF ev.body.kind = "none"
    THEN Response(400, ErrorBody("Request body is required"))
    ELSE IF ev.body.kind = "malformed"
    THEN InternalError
    ELSE LET d == ev.body.val IN
         IF ~TransferFieldsGiven(d)
         THEN MissingTransferFields
         ELSE IF ~(Has(d, "currency") /\ d.currency \in Currencies)
         THEN Response(400, ErrorBody("Currency must be GBP or EUR"))
         ELSE Pass

\* variant: any currency that is given is taken
CreateTransferCheckAnyCurrency(ev) ==
    IF ev.body.kind = "none"
    THEN Response(400, ErrorBody("Request body is required"))
    ELSE IF ev.body.kind = "malformed"
    THEN InternalError
    ELSE LET d == ev.body.val IN
         IF ~TransferFieldsGiven(d)
         THEN MissingTransferFields
         ELSE IF d.fromAccount = d.toAccount
         THEN Response(400, ErrorBody("Cannot transfer to the same account"))
         ELSE IF ~Has(d, "currency")
         THEN Response(400, ErrorBody("Currency must be GBP or EUR"))
         ELSE Pass

CreateTransferCheck(ev) ==
    IF ev.body.kind = "none"
    THEN Response(400, ErrorBody("Request body is required"))
    ELSE IF ev.body.kind = "malformed"
    THEN InternalError
    ELSE LET d == ev.body.val IN
         IF ~TransferFieldsGiven(d)
         THEN MissingTransferFields
         ELSE IF d.fromAccount = d.toAccount
         THEN Response(400, ErrorBody("Cannot transfer to the same account"))
         ELSE IF ~(Has(d, "currency") /\ d.currency \in Currencies)
         THEN Response(400, ErrorBody("Currency must be GBP or EUR"))
         ELSE Pass

\* variant: the sign is flipped without taking the magnitude
OutgoingAmountNegated(amount) == -amount

OutgoingAmount(amount) == -Abs(amount)

IncomingAmount(amount) == Abs(amount)

OutgoingFee(d) == IF TruthyNum(d, "fee") THEN d.fee ELSE 0

\* variant: the fee is charged on both legs
IncomingFeeCopied(d) == OutgoingFee(d)

IncomingFee(d) == 0

OutgoingTransaction(d, transferId, transactionId) ==
    [account |-> d.fromAccount,
     transactionId |-> transactionId,
     date |-> d.date,
     description |-> d.description,
     currency |-> d.currency,
     amount |-> OutgoingAmount(d.amount),
     fee |-> OutgoingFee(d),
     category |-> "transfer",
     transferId |-> transferId,
     transferType |-> "outgoing",
     relatedAccount |-> d.toAccount]

\* variant: the incoming leg names its own account as the related one
IncomingTransactionMisrelated(d, transferId, transactionId) ==
    [account |-> d.toAccount,
     transactionId |-> transactionId,
     date |-> d.date,
     description |-> d.description,
     currency |-> d.currency,
     amount |-> IncomingAmount(d.amount),
     fee |-> IncomingFee(d),
     category |-> "transfer",
     transferId |-> transferId,
     transferType |-> "incoming",
     relatedAccount |-> d.toAccount]

IncomingTransaction(d, transferId, transactionId) ==
    [account |-> d.toAccount,
     transactionId |-> transactionId,
     date |-> d.date,
     description |-> d.description,
     currency |-> d.currency,
     amount |-> IncomingAmount(d.amount),
     fee |-> IncomingFee(d),
     category |-> "transfer",
     transferId |-> transferId,
     transferType |-> "incoming",
     relatedAccount |-> d.fromAccount]

\* POST /transactions/transfer up to the Promise.all: both PutCommands are
\* sent, neither has reached the table
CreateTransfer(p, ev) ==
    /\ Accepts(p)
    /\ Route(ev) = "createTransfer"
    /\ Arrive(p)
    /\ LET c == CreateTransferCheck(ev) IN
       IF c # Pass
       THEN Return(p, ev, c) /\ UNCHANGED <<store, nextUuid>>
       ELSE LET d == ev.body.val
                transferId == Uuid(nextUuid + 1)
                outgoingTransactionId == Uuid(nextUuid + 2)
                incomingTransactionId == Uuid(nextUuid + 3)
            IN  /\ nextUuid' = nextUuid + 3
                /\ Await(p, ev, "createTransfer:puts",
                         [transferId |-> transferId,
                          outgoingTransaction |->
                              OutgoingTransaction(d, transferId, outgoingTransactionId),
                          incomingTransaction |->
                              IncomingTransaction(d, transferId, incomingTransactionId),
                          pending |-> {"outgoing", "incoming"},
                          rejected |-> FALSE])
                /\ UNCHANGED store

CreateTransferResult(l) ==
    IF l.rejected
    THEN Response(500, ErrorBody("Failed to create transfer"))
    ELSE Response(201, [transferId |-> l.transferId,
                        outgoingTransaction |-> l.outgoingTransaction,
                        incomingTransaction |-> l.incomingTransaction])

\* variant: a failed leg write takes the other leg back out of the table
CreateTransferPutCompensating(p, leg, ok) ==
    /\ pc[p] = "createTransfer:puts"
    /\ leg \in local[p].pending
    /\ LET l == local[p]
           item == IF leg = "outgoing" THEN l.outgoingTransaction
                   ELSE l.incomingTransaction
           l2 == [l EXCEPT !.pending = @ \ {leg}, !.rejected = @ \/ ~ok]
       IN  /\ store' = IF l2.rejected
                       THEN store \ {l.outgoingTransaction, l.incomingTransaction}
                       ELSE PutItem(store, item)
           /\ Sent(p, "Put", ok)
           /\ IF l2.pending = {}
              THEN /\ pc' = [pc EXCEPT ![p] = "done"]
                   /\ resp' = [resp EXCEPT ![p] = CreateTransferResult(l2)]
                   /\ local' = [local EXCEPT ![p] = l2]
              ELSE /\ local' = [local EXCEPT ![p] = l2]
                   /\ UNCHANGED <<pc, resp>>
    /\ UNCHANGED <<nextUuid, event, before, served>>

\* one of the two PutCommands of the Promise.all reaches the table, or fails;
\* the two settle in either order, and the result is returned once both have
CreateTransferPut(p, leg, ok) ==
    /\ pc[p] = "createTransfer:puts"
    /\ leg \in local[p].pending
    /\ LET l == local[p]
           item == IF leg = "outgoing" THEN l.outgoingTransaction
                   ELSE l.incomingTransaction
           l2 == [l EXCEPT !.pending = @ \ {leg}, !.rejected = @ \/ ~ok]
       IN  /\ store' = IF ok THEN PutItem(store, item) ELSE store
           /\ Sent(p, "Put", ok)
           /\ IF l2.pending = {}
              THEN /\ pc' = [pc EXCEPT ![p] = "done"]
                   /\ resp' = [resp EXCEPT ![p] = CreateTransferResult(l2)]
                   /\ local' = [local EXCEPT ![p] = l2]
              ELSE /\ local' = [local EXCEPT ![p] = l2]
                   /\ UNCHANGED <<pc, resp>>
    /\ UNCHANGED <<nextUuid, event, before, served>>

(***************************************************************************)
(* createTransaction                                                       *)
(***************************************************************************)
\* variant: the parse of the body is guarded, as it is in the conversion
CreateTransactionCheckParseGuarded(ev) ==
    IF ev.body.kind = "none"
    THEN Response(400, ErrorBody("Request body is required"))
    ELSE IF ev.body.kind = "malformed"
    THEN Response(400, ErrorBody("Invalid JSON in request body"))
    ELSE LET t == ev.body.val IN
         IF \/ ~TruthyStr(t, "account") \/ ~TruthyStr(t, "date")
            \/ ~TruthyStr(t, "description") \/ ~TruthyStr(t, "currency")
            \/ ~Has(t, "amount") \/ ~Has(t, "fee") \/ ~TruthyStr(t, "category")
         THEN Response(400, ErrorBody("Missing required fields"))
         ELSE IF t.currency \notin Currencies
         THEN Response(400, ErrorBody("Currency must be GBP or EUR"))
         ELSE Pass

CreateTransactionCheck(ev) ==
    IF ev.body.kind = "none"
    THEN Response(400, ErrorBody("Request body is required"))
    ELSE IF ev.body.kind = "malformed"
    THEN InternalError
    ELSE LET t == ev.body.val IN
         IF \/ ~TruthyStr(t, "account") \/ ~TruthyStr(t, "date")
            \/ ~TruthyStr(t, "description") \/ ~TruthyStr(t, "currency")
            \/ ~Has(t, "amount") \/ ~Has(t, "fee") \/ ~TruthyStr(t, "category")
         THEN Response(400, ErrorBody("Missing required fields"))
         ELSE IF t.currency \notin Currencies
         THEN Response(400, ErrorBody("Currency must be GBP or EUR"))
         ELSE Pass

\* { ...transaction, transactionId }
NewTransaction(t, transactionId) == Merge(t, [transactionId |-> transactionId])

\* POST /transactions up to the PutCommand
CreateTransaction(p, ev) ==
    /\ Accepts(p)
    /\ Route(ev) = "createTransaction"
    /\ Arrive(p)
    /\ LET c == CreateTransactionCheck(ev) IN
       IF c # Pass
       THEN Return(p, ev, c) /\ UNCHANGED <<store, nextUuid>>
       ELSE /\ nextUuid' = nextUuid + 1
            /\ Await(p, ev, "createTransaction:put",
                     [newTransaction |-> NewTransaction(ev.body.val, Uuid(nextUuid + 1))])
            /\ UNCHANGED store

CreateTransactionPut(p, ok) ==
    /\ pc[p] = "createTransaction:put"
    /\ store' = IF ok THEN PutItem(store, local[p].newTransaction) ELSE store
    /\ Sent(p, "Put", ok)
    /\ Settle(p, IF ok THEN Response(201, local[p].newTransaction) ELSE InternalError)
    /\ UNCHANGED <<nextUuid, event, local, before, served>>

(***************************************************************************)
(* updateTransaction                                                       *)
(***************************************************************************)
\* variant: the key attributes of the body are set as well
UpdateSetsWithKeys(updates) == updates

\* the keys of the body that enter the SET expression
UpdateSets(updates) == [k \in DOMAIN updates \ {"account", "transactionId"} |-> updates[k]]

UpdateTransactionCheck(ev) ==
    IF \/ ~TruthyStr(ev.pathParameters, "transactionId")
       \/ ~TruthyStr(ev.queryStringParameters, "account")
       \/ ev.body.kind = "none"
    THEN Response(400, ErrorBody("transactionId, account, and request body are required"))
    ELSE IF ev.body.kind = "malformed"
    THEN InternalError
    ELSE IF DOMAIN UpdateSets(ev.body.val) = {}
    THEN Response(400, ErrorBody("No valid fields to update"))
    ELSE Pass

\* PUT /transactions/{id} up to the UpdateCommand
UpdateTransaction(p, ev) ==
    /\ Accepts(p)
    /\ Route(ev) = "updateTransaction"
    /\ Arrive(p)
    /\ LET c == UpdateTransactionCheck(ev) IN
       IF c # Pass
       THEN Return(p, ev, c)
       ELSE Await(p, ev, "updateTransaction:update",
                  [account |-> ev.queryStringParameters.account,
                   transactionId |-> ev.pathParameters.transactionId,
                   sets |-> UpdateSets(ev.body.val)])
    /\ UNCHANGED <<store, nextUuid>>

UpdateTransactionUpdate(p, ok) ==
    /\ pc[p] = "updateTransaction:update"
    /\ LET l == local[p] IN
       /\ store' = IF ok THEN UpdateItem(store, l.account, l.transactionId, l.sets)
                   ELSE store
       /\ Settle(p, IF ok
                    THEN Response(200, UpdatedItem(store, l.account, l.transactionId, l.sets))
                    ELSE InternalError)
    /\ Sent(p, "Update", ok)
    /\ UNCHANGED <<nextUuid, event, local, before, served>>

(***************************************************************************)
(* deleteTransaction                                                       *)
(***************************************************************************)
DeleteTransactionCheck(ev) ==
    IF \/ ~TruthyStr(ev.pathParameters, "transactionId")
       \/ ~TruthyStr(ev.queryStringParameters, "account")
    THEN Response(400, ErrorBody("transactionId and account parameters are required"))
    ELSE Pass

\* DELETE /transactions/{id} up to the DeleteCommand
DeleteTransaction(p, ev) ==
    /\ Accepts(p)
    /\ Route(ev) = "deleteTransaction"
    /\ Arrive(p)
    /\ LET c == DeleteTransactionCheck(ev) IN
       IF c # Pass
       THEN Return(p, ev, c)
       ELSE Await(p, ev, "deleteTransaction:delete",
                  [account |-> ev.queryStringParameters.account,
                   transactionId |-> ev.pathParameters.transactionId])
    /\ UNCHANGED <<store, nextUuid>>

DeleteTransactionDelete(p, ok) ==
    /\ pc[p] = "deleteTransaction:delete"
    /\ store' = IF ok THEN DeleteItem(store, local[p].account, local[p].transactionId)
                ELSE store
    /\ Sent(p, "Delete", ok)
    /\ Settle(p, IF ok THEN Response(204, "") ELSE InternalError)
    /\ UNCHANGED <<nextUuid, event, local, before, served>>

(***************************************************************************)
(* convertTransactionToTransfer                                            *)
(***************************************************************************)
\* JSON.stringify drops the undefined properties of debug
ConvertDebug(ev) ==
    Merge(Merge([hasBody |-> ev.body.kind # "none"],
                IF Has(ev.pathParameters, "transactionId")
                THEN [transactionId |-> ev.pathParameters.transactionId]
                ELSE [hasBody |-> ev.body.kind # "none"]),
          IF Has(ev.queryStringParameters, "account")
          THEN [account |-> ev.queryStringParameters.account]
          ELSE [hasBody |-> ev.body.kind # "none"])

\* variant: the same-account test is left out
ConvertCheckSameAllowed(ev) ==
    IF \/ ~TruthyStr(ev.pathParameters, "transactionId")
       \/ ~TruthyStr(ev.queryStringParameters, "account")
       \/ ev.body.kind = "none"
    THEN Response(400, [error |-> "transactionId, account, and request body are required",
                        debug |-> ConvertDebug(ev)])
    ELSE IF ev.body.kind = "malformed"
    THEN Response(400, ErrorBody("Invalid JSON in request body"))
    ELSE IF ~TruthyStr(ev.body.val, "toAccount")
    THEN Response(400, ErrorBody("toAccount is required"))
    ELSE Pass

ConvertCheck(ev) ==
    IF \/ ~TruthyStr(ev.pathParameters, "transactionId")
       \/ ~TruthyStr(ev.queryStringParameters, "account")
       \/ ev.body.kind = "none"
    THEN Response(400, [error |-> "transactionId, account, and request body are required",
                        debug |-> ConvertDebug(ev)])
    ELSE IF ev.body.kind = "malformed"
    THEN Response(400, ErrorBody("Invalid JSON in request body"))
    ELSE IF ~TruthyStr(ev.body.val, "toAccount")
    THEN Response(400, ErrorBody("toAccount is required"))
    ELSE IF ev.queryStringParameters.account = ev.body.val.toAccount
    THEN Response(400, ErrorBody("Cannot transfer to the same account"))
    ELSE Pass

\* variant: the message of the error caught goes into the body
ConvertFailedWithMessage ==
    Response(500, [error |-> "Failed to convert transaction to transfer",
                   message |-> "ProvisionedThroughputExceededException"])

ConvertFailed == Response(500, ErrorBody("Failed to convert transaction to transfer"))

\* variant: a transaction that is a transfer already is converted again
AlreadyTransferUnchecked(originalTransaction) == FALSE

\* if (originalTransaction.transferType)
AlreadyTransfer(originalTransaction) == TruthyStr(originalTransaction, "transferType")

\* variant: the amount of the original is left as it was
ConvertOutgoingAmountKept(amount) == amount

ConvertOutgoingAmount(amount) == -Abs(amount)

\* the SET expression that promotes the original transaction
ConvertSets(originalTransaction, transferId, toAccount) ==
    [transferId |-> transferId,
     transferType |-> "outgoing",
     relatedAccount |-> toAccount,
     category |-> "transfer",
     amount |-> ConvertOutgoingAmount(originalTransaction.amount)]

\* the properties of o among fields that are defined
Pick(o, fields) == [f \in DOMAIN o \cap fields |-> o[f]]

\* variant: the fee of the original is carried onto the incoming leg
ConvertIncomingWithFee(originalTransaction, account, toAccount, transferId, transactionId) ==
    Merge(Pick(originalTransaction, {"date", "description", "currency", "fee"}),
          [account |-> toAccount,
           transactionId |-> transactionId,
           amount |-> Abs(originalTransaction.amount),
           category |-> "transfer",
           transferId |-> transferId,
           transferType |-> "incoming",
           relatedAccount |-> account])

ConvertIncoming(originalTransaction, account, toAccount, transferId, transactionId) ==
    Merge(Pick(originalTransaction, {"date", "description", "currency"}),
          [account |-> toAccount,
           transactionId |-> transactionId,
           amount |-> Abs(originalTransaction.amount),
           fee |-> 0,
           category |-> "transfer",
           transferId |-> transferId,
           transferType |-> "incoming",
           relatedAccount |-> account])

\* PUT /transactions/{id}/convert-to-transfer up to the GetCommand
ConvertTransactionToTransfer(p, ev) ==
    /\ Accepts(p)
    /\ Route(ev) = "convertTransactionToTransfer"
    /\ Arrive(p)
    /\ LET c == ConvertCheck(ev) IN
       IF c # Pass
       THEN Return(p, ev, c)
       ELSE Await(p, ev, "convert:get",
                  [account |-> ev.queryStringParameters.account,
                   transactionId |-> ev.pathParameters.transactionId,
                   toAccount |-> ev.body.val.toAccount])
    /\ UNCHANGED <<store, nextUuid>>

\* the GetCommand settles; found and not yet a transfer, the ids are drawn
\* and the UpdateCommand is sent
ConvertGet(p, ok) ==
    /\ pc[p] = "convert:get"
    /\ Sent(p, "Get", ok)
    /\ LET l == local[p]
           found == ItemsAt(store, l.account, l.transactionId)
       IN  IF ~ok
           THEN Settle(p, ConvertFailed) /\ UNCHANGED <<local, nextUuid>>
           ELSE IF found = {}
           THEN /\ Settle(p, Response(404, ErrorBody("Transaction not found")))
                /\ UNCHANGED <<local, nextUuid>>
           ELSE LET originalTransaction == CHOOSE r \in found : TRUE IN
                IF AlreadyTransfer(originalTransaction)
                THEN /\ Settle(p, Response(400, ErrorBody("Transaction is already a transfer")))
                     /\ UNCHANGED <<local, nextUuid>>
                ELSE /\ nextUuid' = nextUuid + 2
                     /\ local' = [local EXCEPT ![p] =
                            Merge(l, [originalTransaction |-> originalTransaction,
                                      transferId |-> Uuid(nextUuid + 1),
                                      incomingTransactionId |-> Uuid(nextUuid + 2)])]
                     /\ pc' = [pc EXCEPT ![p] = "convert:update"]
                     /\ UNCHANGED resp
    /\ UNCHANGED <<store, event, before, served>>

\* the UpdateCommand settles (it cannot be marshalled, and fails, when the
\* original has no amount: -Math.abs(undefined) is NaN); then the incoming
\* transaction is built and its PutCommand is sent
ConvertUpdate(p, ok) ==
    /\ pc[p] = "convert:update"
    /\ ok => Has(local[p].originalTransaction, "amount")
    /\ Sent(p, "Update", ok)
    /\ LET l == local[p] IN
       IF ~ok
       THEN Settle(p, ConvertFailed) /\ UNCHANGED <<store, local>>
       ELSE LET sets == ConvertSets(l.originalTransaction, l.transferId, l.toAccount) IN
            /\ store' = UpdateItem(store, l.account, l.transactionId, sets)
            /\ local' = [local EXCEPT ![p] =
                   Merge(l, [outgoingTransaction |->
                                 UpdatedItem(store, l.account, l.transactionId, sets),
                             incomingTransaction |->
                                 ConvertIncoming(l.originalTransaction, l.account,
                                     l.toAccount, l.transferId, l.incomingTransactionId)])]
            /\ pc' = [pc EXCEPT ![p] = "convert:put"]
            /\ UNCHANGED resp
    /\ UNCHANGED <<nextUuid, event, before, served>>

\* variant: a failed write of the incoming leg restores the original
ConvertPutRestoring(p, ok) ==
    /\ pc[p] = "convert:put"
    /\ ok => Marshallable(local[p].incomingTransaction, {"date", "description", "currency"})
    /\ Sent(p, "Put", ok)
    /\ LET l == local[p] IN
       /\ store' = IF ok THEN PutItem(store, l.incomingTransaction)
                   ELSE PutItem(store, l.originalTransaction)
       /\ Settle(p, IF ok
                    THEN Response(200, [outgoingTransaction |-> l.outgoingTransaction,
                                        incomingTransaction |-> l.incomingTransaction,
                                        transferId |-> l.transferId])
                    ELSE ConvertFailed)
    /\ UNCHANGED <<nextUuid, event, local, before, served>>

\* the PutCommand of the incoming transaction settles (it cannot be marshalled,
\* and fails, when the original has no date, description or currency)
ConvertPut(p, ok) ==
    /\ pc[p] = "convert:put"
    /\ ok => Marshallable(local[p].incomingTransaction, {"date", "description", "currency"})
    /\ Sent(p, "Put", ok)
    /\ LET l == local[p] IN
       /\ store' = IF ok THEN PutItem(store, l.incomingTransaction) ELSE store
       /\ Settle(p, IF ok
                    THEN Response(200, [outgoingTransaction |-> l.outgoingTransaction,
                                        incomingTransaction |-> l.incomingTransaction,
                                        transferId |-> l.transferId])
                    ELSE ConvertFailed)
    /\ UNCHANGED <<nextUuid, event, local, before, served>>

(***************************************************************************)
(* Inputs: the events the handler is given.                                *)
(***************************************************************************)
ValidTransferData ==
    [fromAccount : Accounts, toAccount : Accounts, amount : Amounts,
     date : Dates, description : {"move"}, currency : {"GBP"},
     fee : {3}]

BaseTransferData ==
    {d \in ValidTransferData :
        d.fromAccount = "acc1" /\ d.amount < 0}

TransferData ==
    ValidTransferData
    \cup {Without(d, "fee") : d \in BaseTransferData}
    \cup {[d EXCEPT !.fee = 0] : d \in BaseTransferData}
    \cup {[d EXCEPT !.currency = "EUR"] : d \in BaseTransferData}
    \cup {Without(d, f) : d \in BaseTransferData,
              f \in {"fromAccount", "toAccount", "amount", "date", "description", "currency"}}
    \cup {[d EXCEPT ![f] = ""] : d \in BaseTransferData,
              f \in {"fromAccount", "toAccount", "date", "description"}}
    \cup {[d EXCEPT !.amount = 0] : d \in BaseTransferData}
    \cup {[d EXCEPT !.currency = "USD"] : d \in BaseTransferData}

Bodies(data) == {NoBody, Malformed} \cup {Json(d) : d \in data}

TransferEvents ==
    {Event("POST", <<"transactions", "transfer">>, "", "", b) : b \in Bodies(TransferData)}

ValidTransactionData ==
    [account : Accounts, date : Dates, description : Descriptions,
     currency : Currencies, amount : Amounts, fee : {2},
     category : {"cat-food"}]

BaseTransactionData ==
    {t \in ValidTransactionData :
        t.account = "acc1" /\ t.amount > 0 /\ t.currency = "GBP"}

LinkableTransactionData == {t \in ValidTransactionData : t.currency = "GBP"}

\* a body that carries transfer-linkage properties of its own
Linked(t) ==
    Merge(t, [transferId |-> "client-transfer", transferType |-> "incoming",
              relatedAccount |-> "acc1", transactionId |-> "client-id"])

TransactionData ==
    ValidTransactionData
    \cup {Linked(t) : t \in LinkableTransactionData}
    \cup {[t EXCEPT !.fee = 0] : t \in BaseTransactionData}
    \cup {[t EXCEPT !.amount = 0] : t \in BaseTransactionData}
    \cup {Without(t, f) : t \in BaseTransactionData,
              f \in {"account", "date", "description", "currency", "amount", "fee", "category"}}
    \cup {[t EXCEPT ![f] = ""] : t \in BaseTransactionData,
              f \in {"account", "date", "description", "currency", "category"}}
    \cup {[t EXCEPT !.currency = "USD"] : t \in BaseTransactionData}

TransactionEvents ==
    {Event("POST", <<"transactions">>, "", "", b) : b \in Bodies(TransactionData)}

\* the (transactionId, account) parameters of an event that addresses a
\* transaction: any id of the table under either account, an id that is in
\* no table, or a parameter missing
Addresses(s) ==
    ({r.transactionId : r \in s} \X Accounts)
    \cup {<<"no-such-id", "acc1">>, <<"", "acc1">>, <<"no-such-id", "">>}

UpdateData ==
    {[amount |-> 75],
     [category |-> "cat-fun", description |-> "rent"],
     [account |-> "acc2", transactionId |-> "client-id"],
     [account |-> "acc2", fee |-> 1],
     [transferId |-> "client-transfer", transferType |-> "outgoing",
      relatedAccount |-> "acc2"]}

UpdateEvents(s) ==
    {Event("PUT", <<"transactions", a[1]>>, a[1], a[2], b) :
        a \in Addresses(s), b \in Bodies(UpdateData)}

DeleteEvents(s) ==
    {Event("DELETE", <<"transactions", a[1]>>, a[1], a[2], NoBody) : a \in Addresses(s)}

ConvertData ==
    {[toAccount |-> a] : a \in Accounts \cup {""}} \cup {[note |-> "no target"]}

ConvertEvents(s) ==
    {Event("PUT", <<"transactions", a[1], "convert-to-transfer">>, a[1], a[2], b) :
        a \in Addresses(s), b \in Bodies(ConvertData)}

OtherEvents ==
    {Event("OPTIONS", <<"transactions">>, "", "", NoBody),
     Event("OPTIONS", <<"transactions", "transfer">>, "", "", NoBody),
     Event("PATCH", <<"transactions", "no-such-id">>, "no-such-id", "acc1", NoBody),
     Event("POST", <<"transactions", "no-such-id">>, "no-such-id", "acc1", NoBody),
     Event("PUT", <<"transactions">>, "", "acc1", NoBody),
     Event("DELETE", <<"transactions">>, "", "acc1", NoBody)}

(***************************************************************************)
(* The specification: one function instance handling one event at a time. *)
(***************************************************************************)
Init ==
    /\ store = {}
    /\ nextUuid = 0
    /\ pc = [p \in Invocations |-> "idle"]
    /\ event = [p \in Invocations |-> NoEvent]
    /\ local = [p \in Invocations |-> NoLocals]
    /\ resp = [p \in Invocations |-> NoResponse]
    /\ calls = [p \in Invocations |-> <<>>]
    /\ before = [p \in Invocations |-> {}]
    /\ served = 0
    /\ tables = [accounts |-> {}, categories |-> {}]

Step(p) ==
    \/ \E ev \in OtherEvents : Handler(p, ev) /\ UNCHANGED tables
    \/ Complete(p) /\ UNCHANGED tables
    \/ \E ev \in TransactionEvents : CreateTransaction(p, ev) /\ UNCHANGED tables
    \/ \E ok \in BOOLEAN : CreateTransactionPut(p, ok) /\ UNCHANGED tables
    \/ \E ev \in UpdateEvents(store) : UpdateTransaction(p, ev) /\ UNCHANGED tables
    \/ \E ok \in BOOLEAN : UpdateTransactionUpdate(p, ok) /\ UNCHANGED tables
    \/ \E ev \in DeleteEvents(store) : DeleteTransaction(p, ev) /\ UNCHANGED tables
    \/ \E ok \in BOOLEAN : DeleteTransactionDelete(p, ok) /\ UNCHANGED tables
    \/ \E ev \in TransferEvents : CreateTransfer(p, ev) /\ UNCHANGED tables
    \/ \E leg \in {"outgoing", "incoming"}, ok \in BOOLEAN : CreateTransferPut(p, leg, ok) /\ UNCHANGED tables
    \/ \E ev \in ConvertEvents(store) : ConvertTransactionToTransfer(p, ev) /\ UNCHANGED tables
    \/ \E ok \in BOOLEAN : ConvertGet(p, ok) /\ UNCHANGED tables
    \/ \E ok \in BOOLEAN : ConvertUpdate(p, ok) /\ UNCHANGED tables
    \/ \E ok \in BOOLEAN : ConvertPut(p, ok) /\ UNCHANGED tables

Next == \E p \in Sequential : Step(p)

Spec == Init /\ [][Next]_vars

(***************************************************************************)
(* Properties of createTransfer.                                           *)
(***************************************************************************)
Handling(p, route) == pc[p] # "idle" /\ Route(event[p]) = route

Returned(p, route) == pc[p] = "done" /\ Route(event[p]) = route

Magnitude(x) == IF x < 0 THEN 0 - x ELSE x

\* the invocation is handling a createTransfer event that passed every test
TransferAccepted(p) ==
    /\ Handling(p, "createTransfer")
    /\ event[p].body.kind = "json"
    /\ LET d == event[p].body.val IN
       /\ Has(d, "fromAccount") /\ d.fromAccount # ""
       /\ Has(d, "toAccount") /\ d.toAccount # ""
       /\ Has(d, "amount") /\ d.amount # 0
       /\ Has(d, "date") /\ d.date # ""
       /\ Has(d, "description") /\ d.description # ""
       /\ d.fromAccount # d.toAccount
       /\ Has(d, "currency") /\ d.currency \in {"GBP", "EUR"}

\* property f of r is defined and is v
Is(r, f, v) == Has(r, f) /\ r[f] = v

HasTransferId(r, id) == Is(r, "transferId", id)

AllOk(cs) == \A i \in 1..Len(cs) : cs[i].ok

Writes(cs) == {i \in 1..Len(cs) : cs[i].cmd \in {"Put", "Update", "Delete"}}

\* C1: a createTransfer request that passes validation with amount A writes
\* an outgoing leg of amount -|A| to fromAccount and an incoming leg of amount
\* +|A| to toAccount, both with one transferId that no item had before; with
\* both writes done the two legs are the items of the table with that id.
C1_TransferAmounts ==
    \A p \in Invocations :
        TransferAccepted(p) =>
            LET d == event[p].body.val
                l == local[p]
                out == l.outgoingTransaction
                inc == l.incomingTransaction
            IN  /\ out.account = d.fromAccount
                /\ out.amount = 0 - Magnitude(d.amount)
                /\ inc.account = d.toAccount
                /\ inc.amount = Magnitude(d.amount)
                /\ out.transferId = inc.transferId
                /\ \A r \in before[p] : ~HasTransferId(r, out.transferId)
                /\ (l.pending = {} /\ AllOk(calls[p])) =>
                       {r \in store : HasTransferId(r, out.transferId)} = {out, inc}

C1_Witness ==
    \E p \in Invocations :
        /\ TransferAccepted(p)
        /\ Returned(p, "createTransfer")
        /\ resp[p].statusCode = 201
        /\ before[p] # {}
        /\ event[p].body.val.amount = 20
        /\ \E o \in store, i \in store :
               /\ o.account = event[p].body.val.fromAccount /\ Is(o, "amount", -20)
               /\ i.account = event[p].body.val.toAccount /\ Is(i, "amount", 20)
               /\ HasTransferId(o, resp[p].body.transferId)
               /\ HasTransferId(i, resp[p].body.transferId)

\* C2: createTransfer with fromAccount = toAccount is answered 400 without a
\* store call, and the table is as it was.
C2_SameAccountRejected ==
    \A p \in Invocations :
        (/\ Handling(p, "createTransfer")
         /\ event[p].body.kind = "json"
         /\ Has(event[p].body.val, "fromAccount")
         /\ Has(event[p].body.val, "toAccount")
         /\ event[p].body.val.fromAccount = event[p].body.val.toAccount)
        => /\ pc[p] = "done"
           /\ resp[p].statusCode = 400
           /\ calls[p] = <<>>
           /\ store = before[p]

C2_Witness ==
    \E p \in Invocations :
        /\ Returned(p, "createTransfer")
        /\ event[p].body.kind = "json"
        /\ Has(event[p].body.val, "fromAccount")
        /\ Has(event[p].body.val, "toAccount")
        /\ event[p].body.val.fromAccount = "acc2"
        /\ event[p].body.val.toAccount = "acc2"
        /\ resp[p] = Response(400, ErrorBody("Cannot transfer to the same account"))
        /\ store # {}

\* C3: a valid createTransfer gives the incoming leg fee 0 whatever fee was
\* supplied, and the outgoing leg the supplied fee, or 0 when none was.
C3_TransferFees ==
    \A p \in Invocations :
        TransferAccepted(p) =>
            LET d == event[p].body.val
                l == local[p]
            IN  /\ l.incomingTransaction.fee = 0
                /\ l.outgoingTransaction.fee = (IF Has(d, "fee") THEN d.fee ELSE 0)
                /\ (l.pending = {} /\ AllOk(calls[p])) =>
                       /\ l.incomingTransaction \in store
                       /\ l.outgoingTransaction \in store

C3_Witness ==
    \E p \in Invocations :
        /\ TransferAccepted(p)
        /\ Returned(p, "createTransfer")
        /\ resp[p].statusCode = 201
        /\ Has(event[p].body.val, "fee")
        /\ event[p].body.val.fee = 3
        /\ \E o \in store, i \in store :
               /\ HasTransferId(o, resp[p].body.transferId)
               /\ HasTransferId(i, resp[p].body.transferId)
               /\ Is(o, "transferType", "outgoing") /\ Is(o, "fee", 3)
               /\ Is(i, "transferType", "incoming") /\ Is(i, "fee", 0)

\* C4: a createTransfer whose two writes both succeed is answered 201; the
\* table then holds the outgoing leg under fromAccount (category transfer,
\* relatedAccount toAccount) and the incoming leg under toAccount (category
\* transfer, relatedAccount fromAccount), and the body returns both items
\* and their transferId.
C4_TransferStored ==
    \A p \in Invocations :
        /\ (TransferAccepted(p) /\ pc[p] = "done" /\ AllOk(calls[p]))
               => resp[p].statusCode = 201
        /\ (Returned(p, "createTransfer") /\ resp[p].statusCode = 201) =>
               LET d == event[p].body.val
                   b == resp[p].body
               IN  \E o \in store, i \in store :
                       /\ o.account = d.fromAccount
                       /\ Is(o, "category", "transfer")
                       /\ Is(o, "transferType", "outgoing")
                       /\ Is(o, "relatedAccount", d.toAccount)
                       /\ i.account = d.toAccount
                       /\ Is(i, "category", "transfer")
                       /\ Is(i, "transferType", "incoming")
                       /\ Is(i, "relatedAccount", d.fromAccount)
                       /\ HasTransferId(o, b.transferId)
                       /\ HasTransferId(i, b.transferId)
                       /\ b.outgoingTransaction = o
                       /\ b.incomingTransaction = i

C4_Witness ==
    \E p \in Invocations :
        /\ Returned(p, "createTransfer")
        /\ resp[p].statusCode = 201
        /\ event[p].body.val.fromAccount = "acc2"
        /\ event[p].body.val.toAccount = "acc1"
        /\ resp[p].body.outgoingTransaction \in store
        /\ resp[p].body.incomingTransaction \in store
        /\ resp[p].body.incomingTransaction.relatedAccount = "acc2"

\* a required field of the transfer is missing or empty, or the currency is
\* not one of GBP and EUR
TransferDataInvalid(d) ==
    \/ \E f \in {"fromAccount", "toAccount", "date", "description"} :
           ~Has(d, f) \/ d[f] = ""
    \/ ~Has(d, "amount") \/ d.amount = 0
    \/ ~Has(d, "currency") \/ d.currency \notin {"GBP", "EUR"}

\* C5: createTransfer with fromAccount, toAccount, amount, date or
\* description missing or empty, or with a currency outside {GBP, EUR}, is
\* answered 400 without a store call, and the table is as it was.
C5_InvalidTransferRejected ==
    \A p \in Invocations :
        (/\ Handling(p, "createTransfer")
         /\ event[p].body.kind = "json"
         /\ TransferDataInvalid(event[p].body.val))
        => /\ pc[p] = "done"
           /\ resp[p].statusCode = 400
           /\ calls[p] = <<>>
           /\ store = before[p]

C5_Witness ==
    \E p \in Invocations :
        /\ Returned(p, "createTransfer")
        /\ event[p].body.kind = "json"
        /\ LET d == event[p].body.val IN
           /\ TransferFieldsGiven(d)
           /\ d.fromAccount # d.toAccount
           /\ Has(d, "currency") /\ d.currency = "USD"
        /\ resp[p] = Response(400, ErrorBody("Currency must be GBP or EUR"))
        /\ store # {}

(***************************************************************************)
(* Properties of convertTransactionToTransfer.                             *)
(***************************************************************************)
\* the event carries both parameters and a body
Addressed(ev) ==
    /\ Has(ev.pathParameters, "transactionId") /\ ev.pathParameters.transactionId # ""
    /\ Has(ev.queryStringParameters, "account") /\ ev.queryStringParameters.account # ""
    /\ ev.body.kind # "none"

\* the items the event addressed when it arrived
AddressedBefore(p) ==
    ItemsAt(before[p], event[p].queryStringParameters.account,
            event[p].pathParameters.transactionId)

AddressedNow(p) ==
    ItemsAt(store, event[p].queryStringParameters.account,
            event[p].pathParameters.transactionId)

\* the body names a target account other than the addressed one
TargetsOther(ev) ==
    /\ ev.body.kind = "json"
    /\ Has(ev.body.val, "toAccount") /\ ev.body.val.toAccount # ""
    /\ ev.body.val.toAccount # ev.queryStringParameters.account

\* C6: convertTransactionToTransfer on a transaction whose item has a
\* transferType sends no write and leaves every item as it was; once the item
\* has been read it is answered 400 'Transaction is already a transfer'.
C6_AlreadyTransferRejected ==
    \A p \in Invocations :
        (/\ Handling(p, "convertTransactionToTransfer")
         /\ Addressed(event[p])
         /\ \E r \in AddressedBefore(p) : Has(r, "transferType") /\ r.transferType # "")
        => /\ pc[p] \in {"convert:get", "done"}
           /\ Writes(calls[p]) = {}
           /\ store = before[p]
           /\ (pc[p] = "done" /\ TargetsOther(event[p]) /\ calls[p] = <<[cmd |-> "Get", ok |-> TRUE]>>)
                  => resp[p] = Response(400, ErrorBody("Transaction is already a transfer"))

C6_Witness ==
    \E p \in Invocations :
        /\ Returned(p, "convertTransactionToTransfer")
        /\ resp[p] = Response(400, ErrorBody("Transaction is already a transfer"))
        /\ \E r \in AddressedNow(p) : Is(r, "transferType", "outgoing") /\ r \in before[p]

\* C7: a successful convertTransactionToTransfer leaves the original
\* transaction with amount -|originalAmount|: a positive amount has become
\* negative, a negative amount is as it was.
C7_ConvertNegatesAmount ==
    \A p \in Invocations :
        (Returned(p, "convertTransactionToTransfer") /\ resp[p].statusCode = 200) =>
            \E orig \in AddressedBefore(p), now \in AddressedNow(p) :
                /\ now.amount = (IF orig.amount > 0 THEN 0 - orig.amount ELSE orig.amount)
                /\ now.amount <= 0
                /\ resp[p].body.outgoingTransaction = now

C7_Witness ==
    \E p \in Invocations :
        /\ Returned(p, "convertTransactionToTransfer")
        /\ resp[p].statusCode = 200
        /\ \E orig \in AddressedBefore(p), now \in AddressedNow(p) :
               Is(orig, "amount", 20) /\ Is(now, "amount", -20)

\* the items of s whose key no item of t has
NewItems(s, t) == {r \in s : \A q \in t : KeyOf(q) # KeyOf(r)}

\* the properties of a among fields are those of b
SameOn(a, b, fields) ==
    \A f \in fields : (Has(a, f) <=> Has(b, f)) /\ (Has(a, f) => a[f] = b[f])

\* C8: after a successful convertTransactionToTransfer(account,
\* transactionId, toAccount) the original item is under its key with its
\* date, description, currency and fee, category transfer, transferType
\* outgoing and relatedAccount toAccount; the table has exactly one new item,
\* in toAccount, under a transactionId no item had, with the original's date,
\* description and currency, amount +|originalAmount|, fee 0, category
\* transfer, transferType incoming and relatedAccount account; both carry one
\* transferId that no item had before; every other item is as it was.
C8_ConvertEffect ==
    \A p \in Invocations :
        (Returned(p, "convertTransactionToTransfer") /\ resp[p].statusCode = 200) =>
            LET account == event[p].queryStringParameters.account
                toAccount == event[p].body.val.toAccount
                added == NewItems(store, before[p])
            IN  \E orig \in AddressedBefore(p), now \in AddressedNow(p), inc \in added :
                    /\ added = {inc}
                    /\ SameOn(now, orig, {"date", "description", "currency", "fee"})
                    /\ now.category = "transfer"
                    /\ now.transferType = "outgoing"
                    /\ now.relatedAccount = toAccount
                    /\ inc.account = toAccount
                    /\ \A r \in before[p] : r.transactionId # inc.transactionId
                    /\ SameOn(inc, orig, {"date", "description", "currency"})
                    /\ inc.amount = Magnitude(orig.amount)
                    /\ inc.fee = 0
                    /\ inc.category = "transfer"
                    /\ inc.transferType = "incoming"
                    /\ inc.relatedAccount = account
                    /\ now.transferId = inc.transferId
                    /\ \A r \in before[p] : ~HasTransferId(r, now.transferId)
                    /\ store \ {now, inc} = before[p] \ {orig}

C8_Witness ==
    \E p \in Invocations :
        /\ Returned(p, "convertTransactionToTransfer")
        /\ resp[p].statusCode = 200
        /\ \E orig \in AddressedBefore(p), now \in AddressedNow(p), inc \in store :
               /\ Is(orig, "fee", 2) /\ Is(now, "fee", 2) /\ Is(orig, "category", "cat-food")
               /\ orig.account = "acc1"
               /\ inc.account = "acc2" /\ Is(inc, "fee", 0)
               /\ Has(now, "transferId") /\ HasTransferId(inc, now.transferId)
               /\ inc.transactionId # now.transactionId

\* C9: convertTransactionToTransfer, given both parameters and a body,
\* answers 400 'Invalid JSON in request body' exactly when the body does not
\* parse, 400 'Cannot transfer to the same account' when toAccount is the
\* addressed account, and 404 when the read finds no item; none of the
\* three sends a write, and the first two send no read either.
C9_ConvertRejections ==
    \A p \in Invocations :
        (Returned(p, "convertTransactionToTransfer") /\ Addressed(event[p])) =>
            LET ev == event[p]
                invalidJson == Response(400, ErrorBody("Invalid JSON in request body"))
            IN  /\ (ev.body.kind = "malformed") <=> (resp[p] = invalidJson)
                /\ ev.body.kind = "malformed" => calls[p] = <<>> /\ store = before[p]
                /\ (/\ ev.body.kind = "json"
                    /\ Has(ev.body.val, "toAccount") /\ ev.body.val.toAccount # ""
                    /\ ev.body.val.toAccount = ev.queryStringParameters.account)
                   => /\ resp[p] = Response(400, ErrorBody("Cannot transfer to the same account"))
                      /\ calls[p] = <<>>
                      /\ store = before[p]
                /\ (/\ TargetsOther(ev)
                    /\ AddressedBefore(p) = {}
                    /\ calls[p][1].ok)
                   => /\ resp[p] = Response(404, ErrorBody("Transaction not found"))
                      /\ calls[p] = <<[cmd |-> "Get", ok |-> TRUE]>>
                      /\ store = before[p]

C9_Witness ==
    \E p \in Invocations :
        /\ Returned(p, "convertTransactionToTransfer")
        /\ resp[p].statusCode = 404
        /\ TargetsOther(event[p])
        /\ store # {}
        /\ \E r \in store : r.transactionId = event[p].pathParameters.transactionId

(***************************************************************************)
(* The transfer invariant of the data model.                               *)
(***************************************************************************)
Quiescent == \A p \in Invocations : pc[p] \in {"idle", "done"}

\* the items that carry transferId id are the two legs of one transfer
IsTransferPair(legs) ==
    \E o \in legs, i \in legs :
        /\ legs = {o, i}
        /\ o.account # i.account
        /\ Has(o, "transferType") /\ o.transferType = "outgoing"
        /\ Has(i, "transferType") /\ i.transferType = "incoming"
        /\ Has(o, "relatedAccount") /\ o.relatedAccount = i.account
        /\ Has(i, "relatedAccount") /\ i.relatedAccount = o.account
        /\ Has(o, "amount") /\ Has(i, "amount")
        /\ o.amount < 0 /\ o.amount + i.amount = 0
        /\ Has(i, "fee") /\ i.fee = 0

\* C10: whenever no request is in progress, every transferId in the table is
\* carried by exactly two items, in two accounts, one outgoing and one
\* incoming, that name each other's account, with amounts that are additive
\* inverses (the outgoing one negative) and fee 0 on the incoming one.
C10_TransferPairs ==
    Quiescent =>
        \A r \in store :
            Has(r, "transferId") =>
                IsTransferPair({q \in store : HasTransferId(q, r.transferId)})

(***************************************************************************)
(* Two function instances converting at once: the store serialises single  *)
(* commands, nothing orders the commands of one request against those of   *)
(* another.  The table holds one plain transaction, as createTransaction   *)
(* stored it.                                                              *)
(***************************************************************************)
ConcurrentInit ==
    /\ store \in {{NewTransaction(t, Uuid(1))} :
                     t \in {d \in ValidTransactionData : d.account = "acc1"}}
    /\ nextUuid = 1
    /\ pc = [p \in Invocations |-> "idle"]
    /\ event = [p \in Invocations |-> NoEvent]
    /\ local = [p \in Invocations |-> NoLocals]
    /\ resp = [p \in Invocations |-> NoResponse]
    /\ calls = [p \in Invocations |-> <<>>]
    /\ before = [p \in Invocations |-> {}]
    /\ served = 0
    /\ tables = [accounts |-> {}, categories |-> {}]

ConcurrentNext ==
    \E p \in Invocations :
        \/ \E ev \in ConvertEvents(store) :
               ConvertTransactionToTransfer(p, ev) /\ UNCHANGED tables
        \/ \E ok \in BOOLEAN : ConvertGet(p, ok) /\ UNCHANGED tables
        \/ \E ok \in BOOLEAN : ConvertUpdate(p, ok) /\ UNCHANGED tables
        \/ \E ok \in BOOLEAN : ConvertPut(p, ok) /\ UNCHANGED tables
        \/ Complete(p) /\ UNCHANGED tables

SpecConcurrent == ConcurrentInit /\ [][ConcurrentNext]_vars

\* the two invocations have returned from converting the same transaction
SameConversion(p, q) ==
    /\ p # q
    /\ Returned(p, "convertTransactionToTransfer")
    /\ Returned(q, "convertTransactionToTransfer")
    /\ Addressed(event[p]) /\ Addressed(event[q])
    /\ event[p].pathParameters = event[q].pathParameters
    /\ event[p].queryStringParameters = event[q].queryStringParameters

\* C11: of two convertTransactionToTransfer requests that address the same
\* (account, transactionId), however their store calls interleave, at most one
\* is answered 200, and the transaction gets one incoming leg only.
C11_ConvertOnce ==
    \A p, q \in Invocations :
        SameConversion(p, q) =>
            /\ ~(resp[p].statusCode = 200 /\ resp[q].statusCode = 200)
            /\ Cardinality({r \in store : Is(r, "transferType", "incoming")}) <= 1

(***************************************************************************)
(* bulkUpdateByDescription (POST /transactions/bulkUpdate).  The stack     *)
(* declares the route and Transactions.handleSubmit calls it; the          *)
(* operation itself is taken from section 4.2 of the specification.        *)
(***************************************************************************)
BATCH_SIZE == 25

\* the sort keys of the table in the order a query returns them
SortKeys ==
    <<"no-such-id", Uuid(1), Uuid(2), Uuid(3), Uuid(4), Uuid(5), Uuid(6), Uuid(7),
      Uuid(8), Uuid(9)>>

\* every transaction of the account, in sort-key order
QueryAccount(s, account) ==
    LET ids == SelectSeq(SortKeys, LAMBDA id : ItemsAt(s, account, id) # {})
    IN  [i \in 1..Len(ids) |-> CHOOSE r \in ItemsAt(s, account, ids[i]) : TRUE]

\* variant: every transaction of the account matches
MatchesAnyDescription(item, description) == TRUE

\* the description is the given one, character for character
MatchesDescription(item, description) == Is(item, "description", description)

\* the full record with the new category and the update stamp
Recategorized(item, newCategory) ==
    Merge(item, [category |-> newCategory, updatedAt |-> "2024-03-16T00:00:00.000Z"])

\* variant: an empty account is answered as an account without matches
NoTransactionsAsNoMatches ==
    Response(200, [message |-> "No transactions found with matching description",
                   updatedCount |-> 0])

NoTransactions ==
    Response(200, [message |-> "No transactions found for account",
                   updatedCount |-> 0])

NoMatches ==
    Response(200, [message |-> "No transactions found with matching description",
                   updatedCount |-> 0])

\* the indices of the batch that starts at index first
Batch(toUpdate, first) ==
    {i \in 1..Len(toUpdate) : first <= i /\ i < first + BATCH_SIZE}

\* POST /transactions/bulkUpdate up to the query of the account; all
\* three parameters are to be present and not empty
BulkUpdateByDescription(p, ev) ==
    /\ Accepts(p)
    /\ ev.httpMethod = "POST" /\ ev.path = <<"transactions", "bulkUpdate">>
    /\ Arrive(p)
    /\ IF \/ ~TruthyStr(ev.body.val, "account")
          \/ ~TruthyStr(ev.body.val, "description")
          \/ ~TruthyStr(ev.body.val, "newCategory")
       THEN Return(p, ev, Response(400,
                ErrorBody("account, description, and newCategory are required")))
       ELSE Await(p, ev, "bulkUpdate:query",
                  [account |-> ev.body.val.account,
                   description |-> ev.body.val.description,
                   newCategory |-> ev.body.val.newCategory])
    /\ UNCHANGED <<store, nextUuid>>

\* the query settles; the matching transactions are selected and the writes
\* of the first batch are sent
BulkUpdateQuery(p, ok) ==
    /\ pc[p] = "bulkUpdate:query"
    /\ Sent(p, "Query", ok)
    /\ LET l == local[p]
           transactions == QueryAccount(store, l.account)
           toUpdate == SelectSeq(transactions,
                           LAMBDA r : MatchesDescription(r, l.description))
       IN  IF ~ok
           THEN Settle(p, Response(500, ErrorBody("Failed to bulk update transactions")))
                /\ UNCHANGED local
           ELSE IF Len(transactions) = 0
           THEN Settle(p, NoTransactions) /\ UNCHANGED local
           ELSE IF Len(toUpdate) = 0
           THEN Settle(p, NoMatches) /\ UNCHANGED local
           ELSE /\ local' = [local EXCEPT ![p] =
                       Merge(l, [toUpdate |-> toUpdate,
                                 first |-> 1,
                                 pending |-> Batch(toUpdate, 1),
                                 rejected |-> FALSE,
                                 updatedCount |-> 0])]
                /\ pc' = [pc EXCEPT ![p] = "bulkUpdate:batch"]
                /\ UNCHANGED resp
    /\ UNCHANGED <<store, nextUuid, event, before, served>>

\* one write of the batch in flight settles; when the whole batch has, the
\* operation fails, goes on to the next batch or returns the count
BulkUpdateWrite(p, i, ok) ==
    /\ pc[p] = "bulkUpdate:batch"
    /\ i \in local[p].pending
    /\ Sent(p, "Put", ok)
    /\ LET l == local[p]
           pending == l.pending \ {i}
           rejected == l.rejected \/ ~ok
           count == l.updatedCount + Cardinality(Batch(l.toUpdate, l.first))
           next == l.first + BATCH_SIZE
       IN  /\ store' = IF ok
                       THEN PutItem(store, Recategorized(l.toUpdate[i], l.newCategory))
                       ELSE store
           /\ IF pending # {}
              THEN /\ local' = [local EXCEPT ![p] =
                          Merge(l, [pending |-> pending, rejected |-> rejected])]
                   /\ UNCHANGED <<pc, resp>>
              ELSE IF rejected
              THEN Settle(p, Response(500, ErrorBody("Failed to bulk update transactions")))
                /\ UNCHANGED local
              ELSE IF next <= Len(l.toUpdate)
              THEN /\ local' = [local EXCEPT ![p] =
                          Merge(l, [first |-> next,
                                    pending |-> Batch(l.toUpdate, next),
                                    updatedCount |-> count])]
                   /\ UNCHANGED <<pc, resp>>
              ELSE /\ Settle(p, Response(200, [message |-> "Transactions updated",
                                                updatedCount |-> count]))
                   /\ UNCHANGED local
    /\ UNCHANGED <<nextUuid, event, before, served>>

\* a transaction as createTransaction stored it
BulkItem(n, account, description, category) ==
    [account |-> account, transactionId |-> Uuid(n), date |-> "2024-03-15",
     description |-> description, currency |-> "GBP", amount |-> -50, fee |-> 2,
     category |-> category]

BulkItems ==
    {BulkItem(1, "acc1", "groceries", "cat-food"),
     BulkItem(2, "acc1", "groceries", "cat-fun"),
     BulkItem(3, "acc1", "Groceries", "cat-food"),
     BulkItem(4, "acc2", "groceries", "cat-food")}

\* the requests: of either account, of a description the table has and of
\* one it has not, and with each parameter missing or empty
BulkEvents ==
    LET base == [account |-> "acc1", description |-> "groceries",
                 newCategory |-> "cat-new"]
        data ==
            [account : Accounts, description : {"groceries", "rent"},
             newCategory : {"cat-new"}]
            \cup {Without(base, f) : f \in {"account", "description", "newCategory"}}
            \cup {[base EXCEPT ![f] = ""] : f \in {"account", "description", "newCategory"}}
    IN  {Event("POST", <<"transactions", "bulkUpdate">>, "", "", Json(d)) : d \in data}

BulkInit ==
    /\ store \in SUBSET BulkItems
    /\ nextUuid = Len(SortKeys)
    /\ pc = [p \in Invocations |-> "idle"]
    /\ event = [p \in Invocations |-> NoEvent]
    /\ local = [p \in Invocations |-> NoLocals]
    /\ resp = [p \in Invocations |-> NoResponse]
    /\ calls = [p \in Invocations |-> <<>>]
    /\ before = [p \in Invocations |-> {}]
    /\ served = 0
    /\ tables = [accounts |-> {}, categories |-> {}]

BulkNext ==
    \E p \in Sequential :
        \/ \E ev \in BulkEvents : BulkUpdateByDescription(p, ev) /\ UNCHANGED tables
        \/ \E ok \in BOOLEAN : BulkUpdateQuery(p, ok) /\ UNCHANGED tables
        \/ \E i \in 1..Cardinality(BulkItems), ok \in BOOLEAN :
               BulkUpdateWrite(p, i, ok) /\ UNCHANGED tables
        \/ Complete(p) /\ UNCHANGED tables

SpecBulk == BulkInit /\ [][BulkNext]_vars

\* the invocation has returned r from bulkUpdateByDescription
BulkReturned(p, status) ==
    /\ pc[p] = "done"
    /\ event[p].path = <<"transactions", "bulkUpdate">>
    /\ resp[p].statusCode = status

\* the transactions of account a with description d, when the request arrived
MatchedBefore(p) ==
    {r \in before[p] : /\ r.account = event[p].body.val.account
                       /\ r.description = event[p].body.val.description}

Round2(x) == ((x + 5) \div 10) * 10

\* the days of a month of the Gregorian calendar, as Date counts them
DaysInMonth(year, month) ==
    LET IsLeapYear == (year % 4 = 0 /\ year % 100 # 0) \/ year % 400 = 0
    IN  IF month = 2 THEN (IF IsLeapYear THEN 29 ELSE 28)
        ELSE IF month \in {4, 6, 9, 11} THEN 30
        ELSE 31

\* date.setMonth(date.getMonth() - i): the day of the month is kept, and a
\* day the month does not have runs over into the month after it
SetMonthBack(date, i) ==
    LET months == date.year * 12 + (date.month - 1) - i
        year == months \div 12
        month == (months % 12) + 1
        over == date.day - DaysInMonth(year, month)
    IN  IF over <= 0
        THEN [year |-> year, month |-> month, day |-> date.day]
        ELSE IF month = 12
        THEN [year |-> year + 1, month |-> 1, day |-> over]
        ELSE [year |-> year, month |-> month + 1, day |-> over]

\* date.toISOString().slice(0, 7)
MonthKey(date) == <<date.year, date.month>>

\* new Date(transaction.date) of a YYYY-MM-DD string: midnight UTC of that
\* day; of anything else, an Invalid Date
NewDate(iso) ==
    LET IsoDates ==
            ("2024-03-15" :> <<2024, 3, 15>>) @@ ("2024-02-10" :> <<2024, 2, 10>>)
            @@ ("2024-02-28" :> <<2024, 2, 28>>) @@ ("2022-06-01" :> <<2022, 6, 1>>)
            @@ ("2023-12-05" :> <<2023, 12, 5>>) @@ ("2024-01-31" :> <<2024, 1, 31>>)
    IN  IF iso \in DOMAIN IsoDates
        THEN [year |-> IsoDates[iso][1], month |-> IsoDates[iso][2],
              day |-> IsoDates[iso][3]]
        ELSE [invalid |-> TRUE]

\* the elements of seq, each at its first occurrence only: the order in
\* which a Map holds the keys set into it
FirstOccurrences(seq) ==
    LET at == [k \in 1..Len(seq) |-> [k |-> k, key |-> seq[k]]]
        kept == SelectSeq(at, LAMBDA e : \A j \in 1..(e.k - 1) : seq[j] # e.key)
    IN  [i \in 1..Len(kept) |-> kept[i].key]

\* the keys of monthlyData after 'Initialize last 12 months'
InitialMonths(currentDate) ==
    FirstOccurrences([k \in 1..12 |-> MonthKey(SetMonthBack(currentDate, 12 - k))])

\* toLocaleDateString('en-US', {month: 'short', year: 'numeric'})
formatMonthLabel(monthKey) ==
    LET MonthNames == <<"Jan", "Feb", "Mar", "Apr", "May", "Jun",
                        "Jul", "Aug", "Sep", "Oct", "Nov", "Dec">>
    IN  <<MonthNames[monthKey[2]], monthKey[1]>>

RECURSIVE SumMagnitudes(_)
\* the sum of Math.abs(transaction.amount) over the sequence
SumMagnitudes(transactions) ==
    IF transactions = <<>> THEN 0
    ELSE Abs(Head(transactions).amount) + SumMagnitudes(Tail(transactions))

calculateMonthlyTrends(transactions, currentDate) ==
    LET months == InitialMonths(currentDate)
        of(key, income) ==
            SelectSeq(transactions,
                LAMBDA t : MonthKey(NewDate(t.date)) = key
                           /\ ((t.amount > 0) <=> income))
    IN  [i \in 1..Len(months) |->
            [month |-> formatMonthLabel(months[i]),
             income |-> Round2(SumMagnitudes(of(months[i], TRUE))),
             expenses |-> Round2(SumMagnitudes(of(months[i], FALSE)))]]

calculateSummary(transactions) ==
    LET totalIncome ==
            SumMagnitudes(SelectSeq(transactions, LAMBDA t : t.amount > 0))
        totalExpenses ==
            SumMagnitudes(SelectSeq(transactions, LAMBDA t : ~(t.amount > 0)))
    IN  [totalIncome |-> Round2(totalIncome),
         totalExpenses |-> Round2(totalExpenses),
         balance |-> Round2(totalIncome - totalExpenses),
         transactionCount |-> Len(transactions)]

\* variant: the share is taken of the rounded amount
PercentageOfRounded(amount, totalExpenses) ==
    IF totalExpenses > 0
    THEN (2 * Round2(amount) * 10000 + totalExpenses) \div (2 * totalExpenses)
    ELSE 0

\* totalExpenses > 0 ? Math.round((amount / totalExpenses) * 10000) / 100 : 0
Percentage(amount, totalExpenses) ==
    IF totalExpenses > 0
    THEN (2 * amount * 10000 + totalExpenses) \div (2 * totalExpenses)
    ELSE 0

\* variant: every transaction counts as an expense
IsExpenseAlways(transaction) == TRUE

\* if (transaction.amount < 0)
IsExpense(transaction) == transaction.amount < 0

RECURSIVE SortByAmount(_)
\* breakdown.sort((a, b) => b.amount - a.amount): the sort is stable
SortByAmount(breakdown) ==
    IF breakdown = <<>> THEN <<>>
    ELSE LET last == breakdown[Len(breakdown)]
             sorted == SortByAmount(SubSeq(breakdown, 1, Len(breakdown) - 1))
         IN  SelectSeq(sorted, LAMBDA e : e.amount >= last.amount)
             \o <<last>>
             \o SelectSeq(sorted, LAMBDA e : e.amount < last.amount)

calculateCategoryBreakdown(transactions, categoryMap) ==
    LET expenses == SelectSeq(transactions, IsExpense)
        totalExpenses == SumMagnitudes(expenses)
        categories == FirstOccurrences([i \in 1..Len(expenses) |-> expenses[i].category])
        total(categoryId) ==
            SumMagnitudes(SelectSeq(expenses, LAMBDA t : t.category = categoryId))
        \* categoryMap.get(categoryId) || categoryId
        CategoryName(categoryId) ==
            IF TruthyStr(categoryMap, categoryId) THEN categoryMap[categoryId]
            ELSE categoryId
    IN  SortByAmount(
            [i \in 1..Len(categories) |->
                [categoryId |-> categories[i],
                 category |-> CategoryName(categories[i]),
                 amount |-> Round2(total(categories[i])),
                 percentage |-> Percentage(total(categories[i]), totalExpenses)]])

AnalyticsCorsHeaders ==
    [ContentType |-> "application/json",
     AccessControlAllowOrigin |-> "*",
     AccessControlAllowHeaders |-> "Content-Type",
     AccessControlAllowMethods |-> "GET,POST,PUT,DELETE,OPTIONS"]

AnalyticsResponse(status, body) ==
    [statusCode |-> status, headers |-> AnalyticsCorsHeaders, body |-> body]

AnalyticsRoute(ev) ==
    CASE ev.httpMethod = "OPTIONS" -> "options"
      [] ev.httpMethod = "GET" ->
            IF ev.path = <<"analytics">> THEN "getAnalytics" ELSE "notFound"
      [] OTHER -> "methodNotAllowed"

AnalyticsInternalError == AnalyticsResponse(500, ErrorBody("Internal server error"))

AnalyticsHandler(p, ev) ==
    /\ Accepts(p)
    /\ AnalyticsRoute(ev) \in {"options", "methodNotAllowed", "notFound"}
    /\ Arrive(p)
    /\ Return(p, ev,
           CASE AnalyticsRoute(ev) = "options" -> AnalyticsResponse(200, "")
             [] AnalyticsRoute(ev) = "methodNotAllowed" ->
                   AnalyticsResponse(405, ErrorBody("Method not allowed"))
             [] OTHER -> AnalyticsResponse(404, ErrorBody("Not found")))
    /\ UNCHANGED <<store, nextUuid>>

\* GET /analytics up to the query of the account's transactions
GetAnalytics(p, ev) ==
    /\ Accepts(p)
    /\ AnalyticsRoute(ev) = "getAnalytics"
    /\ Arrive(p)
    /\ IF ~TruthyStr(ev.queryStringParameters, "account")
       THEN Return(p, ev, AnalyticsResponse(400, ErrorBody("account parameter is required")))
       ELSE Await(p, ev, "getAnalytics:query",
                  [account |-> ev.queryStringParameters.account])
    /\ UNCHANGED <<store, nextUuid>>

\* the query of the transactions settles and the categories are asked for
GetAnalyticsQuery(p, ok) ==
    /\ pc[p] = "getAnalytics:query"
    /\ Sent(p, "Query", ok)
    /\ IF ~ok
       THEN Settle(p, AnalyticsInternalError) /\ UNCHANGED local
       ELSE /\ local' = [local EXCEPT ![p] =
                   Merge(@, [transactions |-> QueryAccount(store, @.account)])]
            /\ pc' = [pc EXCEPT ![p] = "getAnalytics:categories"]
            /\ UNCHANGED resp
    /\ UNCHANGED <<store, nextUuid, event, before, served>>

\* fetchCategories settles with the names it read, or, when its query
\* failed, with the empty Map of its catch; the current date is read and the
\* analytics are calculated.  new Date(transaction.date).toISOString()
\* throws on a transaction whose date is undefined or is no date
GetAnalyticsCategories(p, ok, categoryMap, currentDate) ==
    /\ pc[p] = "getAnalytics:categories"
    /\ ~ok => categoryMap = [c \in {} |-> ""]
    /\ Sent(p, "Query", ok)
    /\ LET transactions == local[p].transactions
           HasDates ==
               \A i \in 1..Len(transactions) :
                   /\ Has(transactions[i], "date")
                   /\ NewDate(transactions[i].date) # [invalid |-> TRUE]
       IN
       /\ local' = [local EXCEPT ![p] = Merge(@, [currentDate |-> currentDate])]
       /\ Settle(p, IF ~HasDates
                    THEN AnalyticsInternalError
                    ELSE AnalyticsResponse(200,
                           [monthlyTrends |->
                                calculateMonthlyTrends(transactions, currentDate),
                            categoryBreakdown |->
                                calculateCategoryBreakdown(transactions, categoryMap),
                            summary |-> calculateSummary(transactions)]))
    /\ UNCHANGED <<store, nextUuid, event, before, served>>

\* the transactions a table can hold
AnalyticsItems ==
    LET AnalyticsItem(n, account, date, amount, category) ==
            [account |-> account, transactionId |-> Uuid(n),
             date |-> date,
             description |-> "groceries", currency |-> "GBP", amount |-> amount,
             fee |-> 0, category |-> category]
    IN
    {AnalyticsItem(1, "acc1", "2024-02-10", -50000, "cat-food"),
     AnalyticsItem(2, "acc1", "2024-02-28", 20006, "cat-salary"),
     AnalyticsItem(3, "acc1", "2022-06-01", -1002, "cat-fun"),
     AnalyticsItem(4, "acc1", "2023-12-05", -70000, "cat-fun"),
     AnalyticsItem(5, "acc2", "2024-01-31", -30000, "cat-food")}

\* what the categories table can answer
CategoryMaps == {[c \in {} |-> ""], [c \in {"cat-food"} |-> "Food"]}

\* every day of a leap year
CurrentDates ==
    {date \in [year : {2024}, month : 1..12, day : 1..31] :
        date.day <= DaysInMonth(date.year, date.month)}

AnalyticsEvents ==
    {Event("GET", <<"analytics">>, "", a, NoBody) : a \in Accounts \cup {""}}
    \cup
    {Event("OPTIONS", <<"analytics">>, "", "", NoBody),
     Event("OPTIONS", <<"transactions">>, "", "acc1", NoBody),
     Event("GET", <<"analytics", "monthly">>, "", "acc1", NoBody),
     Event("POST", <<"analytics">>, "", "acc1", NoBody)}

AnalyticsInit ==
    /\ store \in SUBSET AnalyticsItems
    /\ nextUuid = Len(SortKeys)
    /\ pc = [p \in Invocations |-> "idle"]
    /\ event = [p \in Invocations |-> NoEvent]
    /\ local = [p \in Invocations |-> NoLocals]
    /\ resp = [p \in Invocations |-> NoResponse]
    /\ calls = [p \in Invocations |-> <<>>]
    /\ before = [p \in Invocations |-> {}]
    /\ served = 0
    /\ tables = [accounts |-> {}, categories |-> {}]

AnalyticsNext ==
    \E p \in Sequential :
        \/ \E ev \in AnalyticsEvents : AnalyticsHandler(p, ev) /\ UNCHANGED tables
        \/ \E ev \in AnalyticsEvents : GetAnalytics(p, ev) /\ UNCHANGED tables
        \/ \E ok \in BOOLEAN : GetAnalyticsQuery(p, ok) /\ UNCHANGED tables
        \/ \E ok \in BOOLEAN, categoryMap \in CategoryMaps,
              currentDate \in CurrentDates :
               GetAnalyticsCategories(p, ok, categoryMap, currentDate)
               /\ UNCHANGED tables
        \/ Complete(p) /\ UNCHANGED tables

SpecAnalytics == AnalyticsInit /\ [][AnalyticsNext]_vars

(***************************************************************************)
(* Properties of the analytics.                                            *)
(***************************************************************************)
\* the invocation has returned the analytics of an account
AnalyticsReturned(p) ==
    /\ pc[p] = "done"
    /\ AnalyticsRoute(event[p]) = "getAnalytics"
    /\ resp[p].statusCode = 200

\* the transactions of the account the invocation was asked about
AccountTransactions(p) ==
    {r \in store : r.account = event[p].queryStringParameters.account}

\* the calendar month i months before the month of date
CalendarMonthBack(date, i) ==
    LET months == date.year * 12 + (date.month - 1) - i
    IN  <<months \div 12, (months % 12) + 1>>

\* C14: the analytics of an account without transactions have a summary of
\* totalIncome 0, totalExpenses 0, balance 0 and transactionCount 0, no
\* category breakdown entry, and 12 monthly buckets, each with income 0 and
\* expenses 0.
C14_EmptyAccount ==
    \A p \in Invocations :
        (AnalyticsReturned(p) /\ AccountTransactions(p) = {}) =>
            LET analytics == resp[p].body IN
            /\ analytics.summary = [totalIncome |-> 0, totalExpenses |-> 0,
                                    balance |-> 0, transactionCount |-> 0]
            /\ analytics.categoryBreakdown = <<>>
            /\ Len(analytics.monthlyTrends) = 12
            /\ \A k \in 1..Len(analytics.monthlyTrends) :
                   /\ analytics.monthlyTrends[k].income = 0
                   /\ analytics.monthlyTrends[k].expenses = 0

\* C15: whatever the current date, the monthly trends are 12 buckets, the
\* k-th labelled with the calendar month 12 - k months before the current
\* one: consecutive months in chronological order that end at the current
\* month, none twice and none left out.
C15_TwelveMonths ==
    \A p \in Invocations :
        AnalyticsReturned(p) =>
            LET monthlyTrends == resp[p].body.monthlyTrends
                currentDate == local[p].currentDate
            IN  /\ Len(monthlyTrends) = 12
                /\ \A k \in 1..Len(monthlyTrends) :
                       monthlyTrends[k].month =
                           formatMonthLabel(CalendarMonthBack(currentDate, 12 - k))

RECURSIVE SumOfMagnitudes(_)
\* the sum of |amount| over a set of transactions
SumOfMagnitudes(S) ==
    IF S = {} THEN 0
    ELSE LET r == CHOOSE x \in S : TRUE
         IN  Magnitude(r.amount) + SumOfMagnitudes(S \ {r})

\* the transactions of the account with a negative amount
Expenses(p) == {r \in AccountTransactions(p) : r.amount < 0}

ExpensesOf(p, categoryId) == {r \in Expenses(p) : r.category = categoryId}

\* the breakdown has one entry for each category with an expense, and the
\* entries are in descending order of amount
BreakdownShape(p) ==
    LET breakdown == resp[p].body.categoryBreakdown
        categories == {r.category : r \in Expenses(p)}
    IN  /\ {breakdown[i].categoryId : i \in 1..Len(breakdown)} = categories
        /\ Len(breakdown) = Cardinality(categories)
        /\ \A i, j \in 1..Len(breakdown) :
               i < j => breakdown[i].amount >= breakdown[j].amount

\* C16 as claimed: the category breakdown has exactly the categories with a
\* transaction of negative amount, each with the sum of the magnitudes of its
\* negative amounts, largest amount first.
C16_BreakdownExact ==
    \A p \in Invocations :
        AnalyticsReturned(p) =>
            LET breakdown == resp[p].body.categoryBreakdown IN
            /\ BreakdownShape(p)
            /\ \A i \in 1..Len(breakdown) :
                   breakdown[i].amount =
                       SumOfMagnitudes(ExpensesOf(p, breakdown[i].categoryId))

\* C16 as amended: the category breakdown has exactly the categories with a
\* transaction of negative amount, each with the sum of the magnitudes of its
\* negative amounts rounded to 2 decimals, largest amount first; transactions
\* of positive amount add to no entry.
C16_BreakdownRounded ==
    \A p \in Invocations :
        AnalyticsReturned(p) =>
            LET breakdown == resp[p].body.categoryBreakdown IN
            /\ BreakdownShape(p)
            /\ \A i \in 1..Len(breakdown) :
                   breakdown[i].amount =
                       Round2(SumOfMagnitudes(ExpensesOf(p, breakdown[i].categoryId)))

C16_Witness ==
    \E p \in Invocations :
        /\ AnalyticsReturned(p)
        /\ \E r \in AccountTransactions(p) : r.amount > 0
        /\ LET breakdown == resp[p].body.categoryBreakdown IN
           /\ Len(breakdown) = 2
           /\ breakdown[1].categoryId = "cat-fun" /\ breakdown[1].amount = 71000
           /\ breakdown[2].categoryId = "cat-food" /\ breakdown[2].amount = 50000

RECURSIVE SumOfPercentages(_)
SumOfPercentages(breakdown) ==
    IF breakdown = <<>> THEN 0
    ELSE Head(breakdown).percentage + SumOfPercentages(Tail(breakdown))

\* C17: when the account has expenses, each entry's percentage is within
\* half a hundredth of a percent of its category's share of the total
\* expense magnitude, and the percentages add up to 100 within half a
\* hundredth per entry; when it has none, no entry has a percentage other
\* than 0.
C17_Percentages ==
    \A p \in Invocations :
        AnalyticsReturned(p) =>
            LET breakdown == resp[p].body.categoryBreakdown
                totalExpenses == SumOfMagnitudes(Expenses(p))
            IN  /\ totalExpenses > 0 =>
                    /\ \A i \in 1..Len(breakdown) :
                           LET amount == SumOfMagnitudes(
                                             ExpensesOf(p, breakdown[i].categoryId))
                           IN  2 * Magnitude(breakdown[i].percentage * totalExpenses
                                             - amount * 10000) <= totalExpenses
                    /\ 2 * Magnitude(SumOfPercentages(breakdown) - 10000)
                           <= Len(breakdown)
                /\ totalExpenses = 0 =>
                    \A i \in 1..Len(breakdown) : breakdown[i].percentage = 0

C17_Witness ==
    \E p \in Invocations :
        /\ AnalyticsReturned(p)
        /\ LET breakdown == resp[p].body.categoryBreakdown IN
           /\ Len(breakdown) = 2
           /\ breakdown[1].percentage = 5833
           /\ breakdown[2].percentage = 4167

\* the transactions of the account dated in the month, of positive amount
\* (income) or not
DatedIn(p, monthKey, income) ==
    {r \in AccountTransactions(p) :
        MonthKey(NewDate(r.date)) = monthKey /\ ((r.amount > 0) <=> income)}

\* C18: each of the 12 calendar months ending at the current one has a
\* bucket holding, to 2 decimals, the |amount| of the account's transactions
\* dated in it, under income when amount > 0 and under expenses otherwise;
\* no bucket is of another month; the summary totals all the account's
\* transactions wherever they are dated, transactionCount is their number,
\* and balance is totalIncome - totalExpenses.
C18_TrendsAndSummary ==
    \A p \in Invocations :
        AnalyticsReturned(p) =>
            LET monthlyTrends == resp[p].body.monthlyTrends
                summary == resp[p].body.summary
                window == {CalendarMonthBack(local[p].currentDate, i) : i \in 0..11}
                transactions == AccountTransactions(p)
            IN  /\ \A monthKey \in window :
                       \E k \in 1..Len(monthlyTrends) :
                           /\ monthlyTrends[k].month = formatMonthLabel(monthKey)
                           /\ monthlyTrends[k].income =
                                  Round2(SumOfMagnitudes(DatedIn(p, monthKey, TRUE)))
                           /\ monthlyTrends[k].expenses =
                                  Round2(SumOfMagnitudes(DatedIn(p, monthKey, FALSE)))
                /\ \A k \in 1..Len(monthlyTrends) :
                       \E monthKey \in window :
                           monthlyTrends[k].month = formatMonthLabel(monthKey)
                /\ summary.totalIncome =
                       Round2(SumOfMagnitudes({r \in transactions : r.amount > 0}))
                /\ summary.totalExpenses =
                       Round2(SumOfMagnitudes({r \in transactions : ~(r.amount > 0)}))
                /\ summary.transactionCount = Cardinality(transactions)
                /\ summary.balance = summary.totalIncome - summary.totalExpenses

(***************************************************************************)
(* The frame of deleteTransaction and updateTransaction.                   *)
(***************************************************************************)
\* the item is the one the event of p addresses
IsAddressed(p, r) ==
    /\ Is(event[p].queryStringParameters, "account", r.account)
    /\ Is(event[p].pathParameters, "transactionId", r.transactionId)

\* C20: while and after deleteTransaction or updateTransaction handles an
\* event, every item other than the one at the addressed (account,
\* transactionId) is in the table exactly as it was when the event arrived:
\* the other leg of a transfer is neither deleted nor modified, and no item
\* is added.
C20_LegsIndependent ==
    \A p \in Invocations :
        (Handling(p, "deleteTransaction") \/ Handling(p, "updateTransaction")) =>
            /\ \A r \in before[p] : ~IsAddressed(p, r) => r \in store
            /\ \A r \in store : ~IsAddressed(p, r) => r \in before[p]

C20_Witness ==
    \E p \in Invocations :
        /\ Returned(p, "deleteTransaction")
        /\ resp[p].statusCode = 204
        /\ AddressedNow(p) = {}
        /\ \E leg \in before[p], partner \in store :
               /\ IsAddressed(p, leg)
               /\ Is(leg, "transferType", "outgoing")
               /\ Is(partner, "transferType", "incoming")
               /\ Has(leg, "transferId") /\ HasTransferId(partner, leg.transferId)
               /\ partner \in before[p]

(***************************************************************************)
(* getTransactions and getTransaction                                      *)
(***************************************************************************)
\* GET /transactions up to the QueryCommand
GetTransactions(p, ev) ==
    /\ Accepts(p)
    /\ Route(ev) = "getTransactions"
    /\ Arrive(p)
    /\ IF ~TruthyStr(ev.queryStringParameters, "account")
       THEN Return(p, ev, Response(400, ErrorBody("account parameter is required")))
       ELSE Await(p, ev, "getTransactions:query", ev.queryStringParameters)
    /\ UNCHANGED <<store, nextUuid>>

\* the QueryCommand selects by CategoryIndex when a category is given, else
\* by DateIndex when a date is given, else all of the account
GetTransactionsQuery(p, ok) ==
    /\ pc[p] = "getTransactions:query"
    /\ Sent(p, "Query", ok)
    /\ LET parameters == local[p]
           all == QueryAccount(store, parameters.account)
           transactions ==
               IF TruthyStr(parameters, "category")
               THEN SelectSeq(all, LAMBDA r : Is(r, "category", parameters.category))
               ELSE IF TruthyStr(parameters, "date")
               THEN SelectSeq(all, LAMBDA r : Is(r, "date", parameters.date))
               ELSE all
       IN  Settle(p, IF ok
                     THEN Response(200, [transactions |-> transactions,
                                         count |-> Len(transactions)])
                     ELSE InternalError)
    /\ UNCHANGED <<store, nextUuid, event, local, before, served>>

\* GET /transactions/{id} up to the GetCommand
GetTransaction(p, ev) ==
    /\ Accepts(p)
    /\ Route(ev) = "getTransaction"
    /\ Arrive(p)
    /\ IF \/ ~TruthyStr(ev.pathParameters, "transactionId")
          \/ ~TruthyStr(ev.queryStringParameters, "account")
       THEN Return(p, ev, Response(400,
                ErrorBody("transactionId and account parameters are required")))
       ELSE Await(p, ev, "getTransaction:get",
                  [account |-> ev.queryStringParameters.account,
                   transactionId |-> ev.pathParameters.transactionId])
    /\ UNCHANGED <<store, nextUuid>>

GetTransactionGet(p, ok) ==
    /\ pc[p] = "getTransaction:get"
    /\ Sent(p, "Get", ok)
    /\ LET found == ItemsAt(store, local[p].account, local[p].transactionId) IN
       Settle(p, IF ~ok THEN InternalError
                 ELSE IF found = {}
                 THEN Response(404, ErrorBody("Transaction not found"))
                 ELSE Response(200, CHOOSE r \in found : TRUE))
    /\ UNCHANGED <<store, nextUuid, event, local, before, served>>

\* the GET events: of the collection with the query string parameters
\* given, and of a transaction
GetEvents(s) ==
    {[Event("GET", <<"transactions">>, "", "", NoBody)
         EXCEPT !.queryStringParameters = q] :
        q \in {[none |-> TRUE], [account |-> "acc1"],
               [account |-> "acc1", category |-> "transfer"],
               [account |-> "acc2", date |-> "2024-03-15"],
               [category |-> "transfer"]}}
    \cup {Event("GET", <<"transactions", a[1]>>, a[1], a[2], NoBody) : a \in Addresses(s)}

(***************************************************************************)
(* The accounts handler and the categories handler.  The two are the same  *)
(* code over their own table but for the names and the validation of the   *)
(* fields; h is "accounts" or "categories".                                *)
(***************************************************************************)
\* the key of the table: accountId, categoryId
IdOf(h) == IF h = "accounts" THEN "accountId" ELSE "categoryId"

\* the corsHeaders of accounts-handler.ts and of categories-handler.ts
ResourceCorsHeaders(h) ==
    [ContentType |-> "application/json",
     AccessControlAllowOrigin |-> "*",
     AccessControlAllowHeaders |-> "Content-Type",
     AccessControlAllowMethods |-> "GET,POST,PUT,DELETE,OPTIONS"]

ResourceResponse(h, status, body) ==
    [statusCode |-> status, headers |-> ResourceCorsHeaders(h), body |-> body]

\* a catch that answers without the headers
ResourceInternalErrorWithoutHeaders(h) ==
    [statusCode |-> 500, body |-> ErrorBody("Internal server error")]

\* the handler's catch
ResourceInternalError(h) ==
    ResourceResponse(h, 500, ErrorBody("Internal server error"))

\* path === '/accounts', path.startsWith('/accounts/')
ResourceRoute(h, ev) ==
    LET method == ev.httpMethod
        collection == ev.path = <<h>>
        under == Len(ev.path) >= 2 /\ ev.path[1] = h
    IN  CASE method = "OPTIONS" -> "options"
          [] method = "POST" -> IF collection THEN "create" ELSE "notFound"
          [] method = "GET" ->
                IF collection THEN "getAll" ELSE IF under THEN "get" ELSE "notFound"
          [] method = "PUT" -> IF under THEN "update" ELSE "notFound"
          [] method = "DELETE" -> IF under THEN "delete" ELSE "notFound"
          [] OTHER -> "methodNotAllowed"

\* the events the handler answers itself
ResourceHandler(h, p, ev) ==
    /\ Accepts(p)
    /\ ResourceRoute(h, ev) \in {"options", "methodNotAllowed", "notFound"}
    /\ Arrive(p)
    /\ Return(p, ev,
           CASE ResourceRoute(h, ev) = "options" -> ResourceResponse(h, 200, "")
             [] ResourceRoute(h, ev) = "methodNotAllowed" ->
                   ResourceResponse(h, 405, ErrorBody("Method not allowed"))
             [] OTHER -> ResourceResponse(h, 404, ErrorBody("Not found")))
    /\ UNCHANGED <<store, nextUuid, tables>>

\* POST /accounts, POST /categories up to the PutCommand; the time of
\* new Date().toISOString() is one fixed instant
CreateResource(h, p, ev) ==
    /\ Accepts(p)
    /\ ResourceRoute(h, ev) = "create"
    /\ Arrive(p)
    /\ LET d == ev.body.val
           now == "2024-03-16T00:00:00.000Z"
           check ==
               IF ev.body.kind = "none"
               THEN ResourceResponse(h, 400, ErrorBody("Request body is required"))
               ELSE IF ev.body.kind = "malformed"
               THEN ResourceInternalError(h)
               ELSE IF h = "categories"
               THEN IF ~TruthyStr(d, "name")
                    THEN ResourceResponse(h, 400,
                             ErrorBody("Missing required field: name"))
                    ELSE Pass
               ELSE IF \E f \in {"accountName", "accountNumber", "bankName",
                                 "accountType", "currency"} : ~TruthyStr(d, f)
               THEN ResourceResponse(h, 400, ErrorBody(
                        "Missing required fields: accountName, accountNumber, bankName, accountType, currency"))
               ELSE IF d.accountType \notin {"CHECKING", "SAVINGS", "CREDIT", "INVESTMENT"}
               THEN ResourceResponse(h, 400, ErrorBody(
                        "Account type must be CHECKING, SAVINGS, CREDIT, or INVESTMENT"))
               ELSE IF d.currency \notin {"GBP", "EUR"}
               THEN ResourceResponse(h, 400, ErrorBody("Currency must be GBP or EUR"))
               ELSE Pass
           item ==
               Merge(Merge(d, [isActive |-> IF Has(d, "isActive") THEN d.isActive
                                            ELSE TRUE,
                               createdAt |-> now, updatedAt |-> now]),
                     [k \in {IdOf(h)} |-> Uuid(nextUuid + 1)])
       IN  IF check # Pass
           THEN Return(p, ev, check) /\ UNCHANGED nextUuid
           ELSE /\ nextUuid' = nextUuid + 1
                /\ Await(p, ev, h \o ":create:put", [item |-> item])
    /\ UNCHANGED <<store, tables>>

\* the items of the table but those with the id
Others(h, id) == {r \in tables[h] : r[IdOf(h)] # id}

CreateResourcePut(h, p, ok) ==
    /\ pc[p] = h \o ":create:put"
    /\ Sent(p, "Put", ok)
    /\ LET item == local[p].item IN
       /\ tables' = IF ok
                    THEN [tables EXCEPT ![h] = Others(h, item[IdOf(h)]) \cup {item}]
                    ELSE tables
       /\ Settle(p, IF ok THEN ResourceResponse(h, 201, item)
                    ELSE ResourceInternalError(h))
    /\ UNCHANGED <<store, nextUuid, event, local, before, served>>

\* GET /accounts, GET /categories up to the ScanCommand
GetResources(h, p, ev) ==
    /\ Accepts(p)
    /\ ResourceRoute(h, ev) = "getAll"
    /\ Arrive(p)
    /\ Await(p, ev, h \o ":getAll:scan", ev.queryStringParameters)
    /\ UNCHANGED <<store, nextUuid, tables>>

\* the ScanCommand returns all the items, or those whose isActive is the
\* one asked for (isActive === 'true')
GetResourcesScan(h, p, ok) ==
    /\ pc[p] = h \o ":getAll:scan"
    /\ Sent(p, "Scan", ok)
    /\ LET parameters == local[p]
           items ==
               IF Has(parameters, "isActive")
               THEN {r \in tables[h] :
                        Is(r, "isActive", parameters.isActive = "true")}
               ELSE tables[h]
       IN  Settle(p, IF ~ok THEN ResourceInternalError(h)
                     ELSE IF h = "accounts"
                     THEN ResourceResponse(h, 200,
                              [accounts |-> items, count |-> Cardinality(items)])
                     ELSE ResourceResponse(h, 200,
                              [categories |-> items, count |-> Cardinality(items)]))
    /\ UNCHANGED <<store, nextUuid, event, local, before, served, tables>>

\* GET /accounts/{id}, GET /categories/{id} up to the GetCommand
GetResource(h, p, ev) ==
    /\ Accepts(p)
    /\ ResourceRoute(h, ev) = "get"
    /\ Arrive(p)
    /\ IF ~TruthyStr(ev.pathParameters, IdOf(h))
       THEN Return(p, ev, ResourceResponse(h, 400,
                ErrorBody(IdOf(h) \o " parameter is required")))
       ELSE Await(p, ev, h \o ":get:get", [id |-> ev.pathParameters[IdOf(h)]])
    /\ UNCHANGED <<store, nextUuid, tables>>

GetResourceGet(h, p, ok) ==
    /\ pc[p] = h \o ":get:get"
    /\ Sent(p, "Get", ok)
    /\ LET found == tables[h] \ Others(h, local[p].id) IN
       Settle(p, IF ~ok THEN ResourceInternalError(h)
                 ELSE IF found = {}
                 THEN ResourceResponse(h, 404, ErrorBody(
                          IF h = "accounts" THEN "Account not found"
                          ELSE "Category not found"))
                 ELSE ResourceResponse(h, 200, CHOOSE r \in found : TRUE))
    /\ UNCHANGED <<store, nextUuid, event, local, before, served, tables>>

\* PUT /accounts/{id}, PUT /categories/{id} up to the UpdateCommand;
\* updates is the body without accountId (categoryId) and createdAt, with
\* updatedAt
UpdateResource(h, p, ev) ==
    /\ Accepts(p)
    /\ ResourceRoute(h, ev) = "update"
    /\ Arrive(p)
    /\ LET d == ev.body.val
           updates ==
               Merge([k \in DOMAIN d \ {IdOf(h), "createdAt"} |-> d[k]],
                     [updatedAt |-> "2024-03-16T00:00:00.000Z"])
           check ==
               IF ~TruthyStr(ev.pathParameters, IdOf(h)) \/ ev.body.kind = "none"
               THEN ResourceResponse(h, 400,
                        ErrorBody(IdOf(h) \o " and request body are required"))
               ELSE IF ev.body.kind = "malformed"
               THEN ResourceInternalError(h)
               ELSE IF h = "accounts" /\ TruthyStr(updates, "accountType")
                          /\ updates.accountType \notin {"CHECKING", "SAVINGS", "CREDIT", "INVESTMENT"}
               THEN ResourceResponse(h, 400, ErrorBody(
                        "Account type must be CHECKING, SAVINGS, CREDIT, or INVESTMENT"))
               ELSE IF h = "accounts" /\ TruthyStr(updates, "currency")
                          /\ updates.currency \notin {"GBP", "EUR"}
               THEN ResourceResponse(h, 400, ErrorBody("Currency must be GBP or EUR"))
               ELSE IF DOMAIN updates = {}
               THEN ResourceResponse(h, 400, ErrorBody("No valid fields to update"))
               ELSE Pass
       IN  IF check # Pass
           THEN Return(p, ev, check)
           ELSE Await(p, ev, h \o ":update:update",
                      [id |-> ev.pathParameters[IdOf(h)], sets |-> updates])
    /\ UNCHANGED <<store, nextUuid, tables>>

\* the UpdateCommand sets the fields on the item under the id, which it
\* creates when the table has none (no ConditionExpression is given)
UpdateResourceUpdate(h, p, ok) ==
    /\ pc[p] = h \o ":update:update"
    /\ Sent(p, "Update", ok)
    /\ LET id == local[p].id
           old == tables[h] \ Others(h, id)
           item == Merge(IF old = {} THEN [k \in {IdOf(h)} |-> id]
                         ELSE CHOOSE r \in old : TRUE,
                         local[p].sets)
       IN  /\ tables' = IF ok
                        THEN [tables EXCEPT ![h] = Others(h, id) \cup {item}]
                        ELSE tables
           /\ Settle(p, IF ok THEN ResourceResponse(h, 200, item)
                        ELSE ResourceInternalError(h))
    /\ UNCHANGED <<store, nextUuid, event, local, before, served>>

\* DELETE /accounts/{id}, DELETE /categories/{id} up to the DeleteCommand
DeleteResource(h, p, ev) ==
    /\ Accepts(p)
    /\ ResourceRoute(h, ev) = "delete"
    /\ Arrive(p)
    /\ IF ~TruthyStr(ev.pathParameters, IdOf(h))
       THEN Return(p, ev, ResourceResponse(h, 400,
                ErrorBody(IdOf(h) \o " parameter is required")))
       ELSE Await(p, ev, h \o ":delete:delete", [id |-> ev.pathParameters[IdOf(h)]])
    /\ UNCHANGED <<store, nextUuid, tables>>

DeleteResourceDelete(h, p, ok) ==
    /\ pc[p] = h \o ":delete:delete"
    /\ Sent(p, "Delete", ok)
    /\ tables' = IF ok THEN [tables EXCEPT ![h] = Others(h, local[p].id)] ELSE tables
    /\ Settle(p, IF ok THEN ResourceResponse(h, 204, "") ELSE ResourceInternalError(h))
    /\ UNCHANGED <<store, nextUuid, event, local, before, served>>

\* the events of the handler h.  The ids an event can name are those of the
\* table, one of no item, and none (the path /accounts/); a preflight can
\* be of any path; the bodies are absent, malformed, valid or invalid
ResourceEvents(h) ==
    LET account == [accountName |-> "Joint", accountNumber |-> "12345678",
                    bankName |-> "Bank", accountType |-> "CHECKING",
                    currency |-> "GBP"]
        data == IF h = "accounts"
                THEN {account,
                      Merge(account, [isActive |-> FALSE]),
                      Without(account, "bankName"),
                      [account EXCEPT !.accountType = "PENSION"],
                      [account EXCEPT !.currency = "USD"]}
                ELSE {[name |-> "Food"],
                      [name |-> "Fun", isActive |-> FALSE],
                      [description |-> "no name"]}
        updates == IF h = "accounts"
                   THEN {[accountName |-> "Savings"],
                         [accountType |-> "PENSION"],
                         [currency |-> "USD"],
                         [accountId |-> "client-id", createdAt |-> "client-time"]}
                   ELSE {[name |-> "Leisure"],
                         [categoryId |-> "client-id", createdAt |-> "client-time"]}
        ids == {r[IdOf(h)] : r \in tables[h]} \cup {"no-such-id", ""}
        ResourceEvent(method, path, id, parameters, body) ==
            [httpMethod |-> method, path |-> path,
             pathParameters |-> IF id = "" THEN [none |-> TRUE]
                                ELSE [k \in {IdOf(h)} |-> id],
             queryStringParameters |-> parameters,
             body |-> body]
    IN  {ResourceEvent("POST", <<h>>, "", [none |-> TRUE], b) : b \in Bodies(data)}
        \cup {ResourceEvent("GET", <<h>>, "", q, NoBody) :
                 q \in {[none |-> TRUE], [isActive |-> "true"], [isActive |-> "false"]}}
        \cup {ResourceEvent(m, <<h, id>>, id, [none |-> TRUE], NoBody) :
                 m \in {"GET", "DELETE"}, id \in ids}
        \cup {ResourceEvent("PUT", <<h, id>>, id, [none |-> TRUE], b) :
                 id \in ids, b \in Bodies(updates)}
        \cup {ResourceEvent(m[1], m[2], "", [none |-> TRUE], NoBody) :
                 m \in {<<"OPTIONS", <<h>>>>,
                        <<"OPTIONS", <<h, "no-such-id">>>>,
                        <<"OPTIONS", <<"nowhere", "at", "all">>>>,
                        <<"PATCH", <<h>>>>,
                        <<"POST", <<h, "no-such-id">>>>,
                        <<"PUT", <<h>>>>,
                        <<"DELETE", <<h>>>>,
                        <<"GET", <<"nowhere">>>>}}

(***************************************************************************)
(* The four handlers of the API over their tables, one event at a time.    *)
(* A preflight reaches the transactions handler and the analytics handler  *)
(* on paths that are not theirs too; the analytics are asked for on two    *)
(* days.  An event is drawn only when the invocation accepts one.          *)
(***************************************************************************)
HandlersNext ==
    \E p \in Sequential :
        LET OtherPreflights ==
                {Event("OPTIONS", <<"nowhere", "at", "all">>, "", "", NoBody),
                 Event("OPTIONS", <<"transactions", "no-such-id", "convert-to-transfer">>,
                       "no-such-id", "acc1", Json([toAccount |-> "acc2"]))}
        IN
        \/ Accepts(p) /\ \E ev \in OtherEvents \cup OtherPreflights :
               Handler(p, ev) /\ UNCHANGED tables
        \/ Accepts(p) /\ \E ev \in TransactionEvents :
               CreateTransaction(p, ev) /\ UNCHANGED tables
        \/ \E ok \in BOOLEAN : CreateTransactionPut(p, ok) /\ UNCHANGED tables
        \/ Accepts(p) /\ \E ev \in GetEvents(store) :
               GetTransactions(p, ev) /\ UNCHANGED tables
        \/ \E ok \in BOOLEAN : GetTransactionsQuery(p, ok) /\ UNCHANGED tables
        \/ Accepts(p) /\ \E ev \in GetEvents(store) :
               GetTransaction(p, ev) /\ UNCHANGED tables
        \/ \E ok \in BOOLEAN : GetTransactionGet(p, ok) /\ UNCHANGED tables
        \/ Accepts(p) /\ \E ev \in UpdateEvents(store) :
               UpdateTransaction(p, ev) /\ UNCHANGED tables
        \/ \E ok \in BOOLEAN : UpdateTransactionUpdate(p, ok) /\ UNCHANGED tables
        \/ Accepts(p) /\ \E ev \in DeleteEvents(store) :
               DeleteTransaction(p, ev) /\ UNCHANGED tables
        \/ \E ok \in BOOLEAN : DeleteTransactionDelete(p, ok) /\ UNCHANGED tables
        \/ Accepts(p) /\ \E ev \in TransferEvents :
               CreateTransfer(p, ev) /\ UNCHANGED tables
        \/ \E leg \in {"outgoing", "incoming"}, ok \in BOOLEAN :
               CreateTransferPut(p, leg, ok) /\ UNCHANGED tables
        \/ Accepts(p) /\ \E ev \in ConvertEvents(store) :
               ConvertTransactionToTransfer(p, ev) /\ UNCHANGED tables
        \/ \E ok \in BOOLEAN : ConvertGet(p, ok) /\ UNCHANGED tables
        \/ \E ok \in BOOLEAN : ConvertUpdate(p, ok) /\ UNCHANGED tables
        \/ \E ok \in BOOLEAN : ConvertPut(p, ok) /\ UNCHANGED tables
        \/ Complete(p) /\ UNCHANGED tables
        \/ Accepts(p) /\ \E ev \in AnalyticsEvents \cup OtherPreflights :
               AnalyticsHandler(p, ev) /\ UNCHANGED tables
        \/ Accepts(p) /\ \E ev \in AnalyticsEvents :
               GetAnalytics(p, ev) /\ UNCHANGED tables
        \/ \E ok \in BOOLEAN : GetAnalyticsQuery(p, ok) /\ UNCHANGED tables
        \/ \E ok \in BOOLEAN, categoryMap \in CategoryMaps,
              currentDate \in {d \in CurrentDates : d.month = 3 /\ d.day \in {16, 31}} :
               GetAnalyticsCategories(p, ok, categoryMap, currentDate)
               /\ UNCHANGED tables
        \/ \E h \in {"accounts", "categories"} :
               \/ Accepts(p) /\ \E ev \in ResourceEvents(h) : ResourceHandler(h, p, ev)
               \/ Accepts(p) /\ \E ev \in ResourceEvents(h) : CreateResource(h, p, ev)
               \/ \E ok \in BOOLEAN : CreateResourcePut(h, p, ok)
               \/ Accepts(p) /\ \E ev \in ResourceEvents(h) : GetResources(h, p, ev)
               \/ \E ok \in BOOLEAN : GetResourcesScan(h, p, ok)
               \/ Accepts(p) /\ \E ev \in ResourceEvents(h) : GetResource(h, p, ev)
               \/ \E ok \in BOOLEAN : GetResourceGet(h, p, ok)
               \/ Accepts(p) /\ \E ev \in ResourceEvents(h) : UpdateResource(h, p, ev)
               \/ \E ok \in BOOLEAN : UpdateResourceUpdate(h, p, ok)
               \/ Accepts(p) /\ \E ev \in ResourceEvents(h) : DeleteResource(h, p, ev)
               \/ \E ok \in BOOLEAN : DeleteResourceDelete(h, p, ok)

SpecHandlers == Init /\ [][HandlersNext]_vars

(***************************************************************************)
(* Properties of the handlers' responses.                                  *)
(***************************************************************************)
\* C19: every response of the transactions, accounts, categories and
\* analytics handlers, whatever its status, carries the permissive
\* cross-origin headers, and an OPTIONS request, on any path, is answered
\* with status 200 and an empty body without any store operation.
C19_CorsAndPreflight ==
    \A p \in Invocations :
        resp[p] # NoResponse =>
            /\ Has(resp[p], "headers")
            /\ resp[p].headers = corsHeaders
            /\ resp[p].headers.AccessControlAllowOrigin = "*"
            /\ event[p].httpMethod = "OPTIONS" =>
                   /\ resp[p].statusCode = 200
                   /\ resp[p].body = ""
                   /\ calls[p] = <<>>
                   /\ store = before[p]

\* after an account was created, a preflight of a path under /accounts was
\* answered
C19_Witness ==
    \E p \in Invocations :
        /\ pc[p] = "done"
        /\ served = MaxRequests
        /\ tables.accounts # {}
        /\ event[p].httpMethod = "OPTIONS"
        /\ event[p].path = <<"accounts", "no-such-id">>
        /\ resp[p].statusCode = 200

(***************************************************************************)
(* Properties of createTransaction.                                        *)
(***************************************************************************)
\* C21: a transaction createTransaction has stored carries no transferId, no
\* transferType and no relatedAccount, whatever the body of the request held.
C21_PlainUnlinked ==
    \A p \in Invocations :
        (Returned(p, "createTransaction") /\ resp[p].statusCode = 201) =>
            \A r \in store \ before[p] :
                /\ ~Has(r, "transferId")
                /\ ~Has(r, "transferType")
                /\ ~Has(r, "relatedAccount")

(***************************************************************************)
(* Properties of the failures of createTransfer.                           *)
(***************************************************************************)
\* the two PutCommands of the createTransfer of p have settled, one of them
\* rejected
OneLegFailed(p) ==
    /\ Returned(p, "createTransfer")
    /\ Len(calls[p]) = 2
    /\ Cardinality({i \in 1..2 : calls[p][i].ok}) = 1

\* C22: when exactly one of the two leg writes of createTransfer fails, the
\* request is answered 500 'Failed to create transfer', the two PutCommands
\* are the only store calls it made (no delete, no retry), and the table is
\* the one of the arrival with the leg whose write succeeded added to it.
C22_PartialTransfer ==
    \A p \in Invocations :
        OneLegFailed(p) =>
            /\ resp[p] = Response(500, ErrorBody("Failed to create transfer"))
            /\ \A i \in 1..2 : calls[p][i].cmd = "Put"
            /\ \/ store = PutItem(before[p], local[p].outgoingTransaction)
               \/ store = PutItem(before[p], local[p].incomingTransaction)
            /\ Cardinality(store) = Cardinality(before[p]) + 1

\* the incoming leg of a transfer is in the table without its outgoing leg
C22_Witness ==
    \E p \in Invocations :
        /\ OneLegFailed(p)
        /\ local[p].incomingTransaction \in store
        /\ local[p].outgoingTransaction \notin store
        /\ resp[p].statusCode = 500

(***************************************************************************)
(* Properties of the failures of convertTransactionToTransfer.             *)
(***************************************************************************)
\* C23: in convertTransactionToTransfer the PutCommand of the incoming leg is
\* sent only after the UpdateCommand of the original has succeeded. When the
\* update fails no PutCommand is sent and the table is the one of the
\* arrival; when the update succeeds and the put fails the request is
\* answered 500, the original is left promoted (transferType outgoing,
\* category transfer) and toAccount holds no item of the new transferId.
C23_UpdateBeforePut ==
    \A p \in Invocations :
        Handling(p, "convertTransactionToTransfer") =>
            LET cs == calls[p] IN
            /\ \A i \in 1..Len(cs) :
                   cs[i].cmd = "Put" =>
                       i = 3 /\ cs[2] = [cmd |-> "Update", ok |-> TRUE]
            /\ (Len(cs) >= 2 /\ cs[2] = [cmd |-> "Update", ok |-> FALSE]) =>
                   /\ pc[p] = "done"
                   /\ Len(cs) = 2
                   /\ store = before[p]
                   /\ resp[p] = ConvertFailed
            /\ (Len(cs) = 3 /\ cs[3] = [cmd |-> "Put", ok |-> FALSE]) =>
                   /\ pc[p] = "done"
                   /\ resp[p] = ConvertFailed
                   /\ \E r \in store :
                          /\ KeyOf(r) = <<local[p].account, local[p].transactionId>>
                          /\ Is(r, "transferType", "outgoing")
                          /\ Is(r, "category", "transfer")
                          /\ HasTransferId(r, local[p].transferId)
                   /\ \A r \in store :
                          r.account = local[p].toAccount =>
                              ~HasTransferId(r, local[p].transferId)
                   /\ Cardinality(store) = Cardinality(before[p])

\* a conversion has promoted the original and failed to write the incoming leg
C23_Witness ==
    \E p \in Invocations :
        /\ Returned(p, "convertTransactionToTransfer")
        /\ Len(calls[p]) = 3
        /\ calls[p][2] = [cmd |-> "Update", ok |-> TRUE]
        /\ calls[p][3] = [cmd |-> "Put", ok |-> FALSE]
        /\ resp[p].statusCode = 500
        /\ \E r \in store : HasTransferId(r, local[p].transferId)
        /\ store # before[p]

(***************************************************************************)
(* Properties of the failures of the store calls.                          *)
(***************************************************************************)
\* the fixed result of a transactions operation whose store call failed
FailureOf(route) ==
    CASE route = "createTransfer" -> Response(500, ErrorBody("Failed to create transfer"))
      [] route = "convertTransactionToTransfer" -> ConvertFailed
      [] OTHER -> InternalError

\* C24: a transactions operation one of whose store calls failed is answered
\* 500 with the fixed message of the operation ('Internal server error',
\* 'Failed to create transfer' or 'Failed to convert transaction to
\* transfer') as the only property of the body; the failed call is the last
\* call of the operation (in createTransfer, one of the two PutCommands sent
\* together), so it is not sent again.
C24_StoreFailure ==
    \A p \in Invocations :
        LET cs == calls[p]
            route == Route(event[p])
        IN  (/\ pc[p] # "idle"
             /\ route \in {"createTransaction", "getTransactions", "getTransaction",
                           "updateTransaction", "deleteTransaction",
                           "createTransfer", "convertTransactionToTransfer"}
             /\ ~AllOk(cs)) =>
                /\ IF route = "createTransfer"
                   THEN Len(cs) <= 2 /\ (pc[p] = "done" <=> Len(cs) = 2)
                   ELSE pc[p] = "done" /\ AllOk(SubSeq(cs, 1, Len(cs) - 1))
                /\ pc[p] = "done" =>
                       /\ resp[p] = FailureOf(route)
                       /\ resp[p].statusCode = 500
                       /\ DOMAIN resp[p].body = {"error"}
                       /\ resp[p].body.error \in
                              {"Internal server error", "Failed to create transfer",
                               "Failed to convert transaction to transfer"}

\* a query of getTransactions has failed
C24_Witness ==
    \E p \in Invocations :
        /\ Returned(p, "getTransactions")
        /\ calls[p] = <<[cmd |-> "Query", ok |-> FALSE]>>
        /\ resp[p] = InternalError
        /\ store # {}

(***************************************************************************)
(* A deleteTransaction and a convertTransactionToTransfer that interleave. *)
(* The table starts with one transaction, as two conversions do.           *)
(***************************************************************************)
RaceNext ==
    \E p \in Invocations :
        \/ Accepts(p) /\ \E ev \in DeleteEvents(store) :
               DeleteTransaction(p, ev) /\ UNCHANGED tables
        \/ \E ok \in BOOLEAN : DeleteTransactionDelete(p, ok) /\ UNCHANGED tables
        \/ Accepts(p) /\ \E ev \in ConvertEvents(store) :
               ConvertTransactionToTransfer(p, ev) /\ UNCHANGED tables
        \/ \E ok \in BOOLEAN : ConvertGet(p, ok) /\ UNCHANGED tables
        \/ \E ok \in BOOLEAN : ConvertUpdate(p, ok) /\ UNCHANGED tables
        \/ \E ok \in BOOLEAN : ConvertPut(p, ok) /\ UNCHANGED tables
        \/ Complete(p) /\ UNCHANGED tables

SpecRace == ConcurrentInit /\ [][RaceNext]_vars

\* C25: every item of the transactions table has a date, a description and a
\* currency, also when a deleteTransaction takes effect between the GetCommand
\* and the UpdateCommand of a convertTransactionToTransfer of the same item.
C25_NoPartialRecord ==
    \A r \in store :
        Has(r, "date") /\ Has(r, "description") /\ Has(r, "currency")

(***************************************************************************)
(* Properties of the handler's results.                                    *)
(***************************************************************************)
\* the invocation is handling an event of the transactions API
OnTransactions(p) ==
    /\ pc[p] # "idle"
    /\ Len(event[p].path) >= 1
    /\ event[p].path[1] = "transactions"

\* the operation of p threw: JSON.parse on a malformed body in one of the
\* three operations that parse the body as it is, or a store call that failed
Threw(p) ==
    \/ /\ Route(event[p]) \in {"createTransaction", "createTransfer", "updateTransaction"}
       /\ event[p].body.kind = "malformed"
       /\ calls[p] = <<>>
       /\ Route(event[p]) = "updateTransaction" =>
              /\ TruthyStr(event[p].pathParameters, "transactionId")
              /\ TruthyStr(event[p].queryStringParameters, "account")
    \/ ~AllOk(calls[p])

\* C26 as stated: every result of the transactions handler has one of the
\* statuses 200, 201, 204, 400, 404, 405 and 500, and an operation in which
\* an exception was thrown, the parse of a malformed body included, is
\* answered 500 'Internal server error' with the table as it was.
C26_AnyExceptionInternal ==
    \A p \in Invocations :
        (OnTransactions(p) /\ pc[p] = "done") =>
            /\ resp[p].statusCode \in {200, 201, 204, 400, 404, 405, 500}
            /\ Threw(p) => resp[p] = InternalError /\ store = before[p]

\* C26, amended: every result of the transactions handler has one of the
\* seven statuses; a malformed body in createTransaction, createTransfer or
\* updateTransaction is answered 500 'Internal server error' without a store
\* call; a failed store call is answered 500 'Internal server error' in every
\* operation but createTransfer and convertTransactionToTransfer, which
\* answer 500 with their own message and may have written before.
C26_StatusesAndParse ==
    \A p \in Invocations :
        (OnTransactions(p) /\ pc[p] = "done") =>
            /\ resp[p].statusCode \in {200, 201, 204, 400, 404, 405, 500}
            /\ (Threw(p) /\ AllOk(calls[p])) =>
                   /\ resp[p] = InternalError
                   /\ calls[p] = <<>>
                   /\ store = before[p]
            /\ ~AllOk(calls[p]) =>
                   /\ resp[p].statusCode = 500
                   /\ Route(event[p]) \notin {"createTransfer",
                                              "convertTransactionToTransfer"} =>
                          resp[p] = InternalError /\ store = before[p]

\* an updateTransaction with a malformed body has been answered
C26_Witness ==
    \E p \in Invocations :
        /\ Returned(p, "updateTransaction")
        /\ event[p].body.kind = "malformed"
        /\ Threw(p)
        /\ resp[p] = InternalError
        /\ store # {}

(***************************************************************************)
(* Properties of updateTransaction.                                        *)
(***************************************************************************)
\* C27: updateTransaction changes the account and the transactionId of no
\* item. A body whose only properties are account and transactionId is
\* answered 400 'No valid fields to update' without a store call; otherwise a
\* successful update leaves, under the addressed (account, transactionId), the
\* item with every other property of the body set to the body's value and
\* its remaining properties as they were, and every other item as it was.
C27_UpdateKeepsKey ==
    \A p \in Invocations :
        (/\ Returned(p, "updateTransaction")
         /\ Addressed(event[p])
         /\ event[p].body.kind = "json") =>
            LET u == event[p].body.val
                supplied == DOMAIN u \ {"account", "transactionId"}
                account == event[p].queryStringParameters.account
                transactionId == event[p].pathParameters.transactionId
            IN  IF supplied = {}
                THEN /\ resp[p] = Response(400, ErrorBody("No valid fields to update"))
                     /\ calls[p] = <<>>
                     /\ store = before[p]
                ELSE /\ resp[p].statusCode \in {200, 500}
                     /\ resp[p].statusCode = 500 => store = before[p]
                     /\ resp[p].statusCode = 200 =>
                            /\ {KeyOf(r) : r \in store} =
                                   {KeyOf(r) : r \in before[p]}
                                       \cup {<<account, transactionId>>}
                            /\ \A r \in before[p] :
                                   KeyOf(r) # <<account, transactionId>> => r \in store
                            /\ \A r \in AddressedNow(p) :
                                   /\ \A k \in supplied : Is(r, k, u[k])
                                   /\ resp[p].body = r
                                   /\ \A o \in AddressedBefore(p) :
                                          /\ SameOn(r, o, (DOMAIN r \cup DOMAIN o) \ supplied)
                                          /\ Cardinality(store) = Cardinality(before[p])

\* an update whose body names another account and a fee has set the fee and
\* left the item under its account
C27_Witness ==
    \E p \in Invocations :
        /\ Returned(p, "updateTransaction")
        /\ resp[p].statusCode = 200
        /\ event[p].body.val = [account |-> "acc2", fee |-> 1]
        /\ event[p].queryStringParameters.account = "acc1"
        /\ \E o \in AddressedBefore(p), r \in AddressedNow(p) :
               /\ o.fee = 2 /\ r.fee = 1 /\ r.account = "acc1"

(***************************************************************************)
(* The TransferModal of the frontend.  local[p] is the state of the        *)
(* component (formData, isSaving) with the isOpen prop, calls[p] the       *)
(* transferData that onSave has been called with, served their number.     *)
(* Of formData the two accounts and the amount (in pence) are kept: date,  *)
(* description, currency and fee enter no condition of the component.      *)
(***************************************************************************)
\* accounts.filter(acc => acc.isActive && acc.accountId !== formData.fromAccount)
availableToAccounts(accounts, formData) ==
    {acc \in accounts : acc.isActive /\ acc.accountId # formData.fromAccount}

\* the change of a field: a select offers its options, the first of which is
\* the empty value; the amount is parseFloat(value) || 0
handleInputChange(p, accounts, name, value) ==
    /\ local[p].isOpen
    /\ CASE name = "fromAccount" ->
                value \in {""} \cup {acc.accountId : acc \in {a \in accounts : a.isActive}}
         [] name = "toAccount" ->
                value \in {""} \cup {acc.accountId :
                                        acc \in availableToAccounts(accounts, local[p].formData)}
         [] name = "amount" -> value \in {0, 1250}
    /\ local' = [local EXCEPT ![p].formData = Merge(@, [k \in {name} |-> value])]
    /\ UNCHANGED <<store, nextUuid, pc, event, resp, calls, before, served, tables>>

\* variant: the form is submitted without the validation of its fields
handleSubmitUnvalidated(p, accounts) ==
    LET formData == local[p].formData IN
    /\ local[p].isOpen
    /\ served < MaxRequests
    /\ ~(local[p].isSaving \/ formData.fromAccount = "" \/ formData.toAccount = ""
         \/ formData.amount <= 0)
    /\ local' = [local EXCEPT ![p].isSaving = TRUE]
    /\ calls' = [calls EXCEPT ![p] = Append(@, formData)]
    /\ served' = served + 1
    /\ UNCHANGED <<store, nextUuid, pc, event, resp, before, tables>>

\* the submit event, up to the call of onSave.  The event is fired when the
\* submit button is not disabled and every required field is valid: a select
\* whose value is none of its options shows its first option, the empty one.
handleSubmit(p, accounts) ==
    LET formData == local[p].formData
        Shown(options, value) == IF value \in options THEN value ELSE ""
        fromOptions == {acc.accountId : acc \in {a \in accounts : a.isActive}}
        toOptions == {acc.accountId : acc \in availableToAccounts(accounts, formData)}
    IN
    /\ local[p].isOpen
    /\ served < MaxRequests
    /\ ~(local[p].isSaving \/ formData.fromAccount = "" \/ formData.toAccount = ""
         \/ formData.amount <= 0)
    /\ Shown(fromOptions, formData.fromAccount) # ""
    /\ Shown(toOptions, formData.toAccount) # ""
    /\ formData.amount >= 1
    /\ local' = [local EXCEPT ![p].isSaving = TRUE]
    /\ calls' = [calls EXCEPT ![p] = Append(@, formData)]
    /\ served' = served + 1
    /\ UNCHANGED <<store, nextUuid, pc, event, resp, before, tables>>

\* the promise of onSave settles: fulfilled, onClose() is called; isSaving is
\* false again in either case
HandleSubmitSettled(p, ok) ==
    /\ local[p].isSaving
    /\ local' = [local EXCEPT ![p].isSaving = FALSE,
                              ![p].isOpen = IF ok THEN FALSE ELSE @]
    /\ UNCHANGED <<store, nextUuid, pc, event, resp, calls, before, served, tables>>

ModalInit ==
    /\ store = {}
    /\ nextUuid = 0
    /\ pc = [p \in Invocations |-> "idle"]
    /\ event = [p \in Invocations |-> NoEvent]
    /\ local = [p \in Invocations |->
                   [formData |-> [fromAccount |-> "", toAccount |-> "", amount |-> 0],
                    isSaving |-> FALSE,
                    isOpen |-> FALSE]]
    /\ resp = [p \in Invocations |-> NoResponse]
    /\ calls = [p \in Invocations |-> <<>>]
    /\ before = [p \in Invocations |-> {}]
    /\ served = 0
    /\ tables = [accounts |-> {}, categories |-> {}]

ModalNext ==
    \E p \in Sequential :
        LET accounts == {[accountId |-> "acc1", isActive |-> TRUE],
                         [accountId |-> "acc2", isActive |-> TRUE],
                         [accountId |-> "acc3", isActive |-> FALSE]}
        IN
        \* the modal is opened: the effect on isOpen resets formData
        \/ /\ ~local[p].isOpen
           /\ \E selectedAccount \in {""} \cup {acc.accountId : acc \in accounts} :
                  local' = [local EXCEPT ![p].isOpen = TRUE,
                                ![p].formData = [fromAccount |-> selectedAccount,
                                                 toAccount |-> "", amount |-> 0]]
           /\ UNCHANGED <<store, nextUuid, pc, event, resp, calls, before, served, tables>>
        \* onClose: the close button, the backdrop, the Escape key
        \/ /\ local[p].isOpen
           /\ local' = [local EXCEPT ![p].isOpen = FALSE]
           /\ UNCHANGED <<store, nextUuid, pc, event, resp, calls, before, served, tables>>
        \/ \E name \in {"fromAccount", "toAccount"},
              value \in {"", "acc1", "acc2", "acc3"} :
               handleInputChange(p, accounts, name, value)
        \/ \E value \in {0, 1250} : handleInputChange(p, accounts, "amount", value)
        \/ handleSubmit(p, accounts)
        \/ \E ok \in BOOLEAN : HandleSubmitSettled(p, ok)

SpecModal == ModalInit /\ [][ModalNext]_vars

\* C28: onSave is never called with fromAccount equal to toAccount, in
\* whatever order the two accounts were selected and selected again.
C28_NeverSameAccount ==
    \A p \in Invocations :
        \A i \in 1..Len(calls[p]) :
            calls[p][i].fromAccount # calls[p][i].toAccount

\* the source has been selected again and is the destination selected before,
\* in a modal that has called onSave
C28_Witness ==
    \E p \in Invocations :
        /\ local[p].isOpen
        /\ local[p].formData.fromAccount = "acc2"
        /\ local[p].formData.toAccount = "acc2"
        /\ local[p].formData.amount > 0
        /\ ~local[p].isSaving
        /\ Len(calls[p]) = 1
        /\ calls[p][1] = [fromAccount |-> "acc1", toAccount |-> "acc2", amount |-> 1250]

(***************************************************************************)
(* The CSV import of the Transactions screen.  local[p] holds              *)
(* importProgress (without the error messages), the loop variables of      *)
(* batchImportTransactions and the state of the request of each valid row; *)
(* pc[p] is the await the import is suspended at.  A file is given by the  *)
(* number of its rows that importTransactions finds valid.                 *)
(***************************************************************************)
MaxRows == 7

batchSize == 5

\* the file input's onChange, up to Papa.parse; the input is disabled while
\* an import is running
handleFileUpload(p, valid) ==
    /\ pc[p] = "idle"
    /\ served < MaxRequests
    /\ served' = served + 1
    /\ pc' = [pc EXCEPT ![p] = "parse"]
    /\ local' = [local EXCEPT ![p] =
           [importProgress |-> [total |-> 0, processed |-> 0, isImporting |-> TRUE],
            requests |-> [k \in 1..valid |-> "unsent"],
            i |-> 0,
            totalProcessed |-> 0]]
    /\ UNCHANGED <<store, nextUuid, event, resp, calls, before, tables>>

\* Papa.parse completes: the valid rows are counted and the first batch is
\* sent, or the import is over when no row is valid
importTransactions(p) ==
    /\ pc[p] = "parse"
    /\ LET l == local[p]
           length == Len(l.requests)
       IN  IF length > 0
           THEN /\ local' = [local EXCEPT ![p] =
                       [l EXCEPT !.importProgress.total = length,
                                 !.requests = [k \in 1..length |->
                                     IF k <= batchSize THEN "pending" ELSE "unsent"]]]
                /\ pc' = [pc EXCEPT ![p] = "batch"]
           ELSE /\ local' = [local EXCEPT ![p] =
                       [l EXCEPT !.importProgress.total = length,
                                 !.importProgress.isImporting = FALSE]]
                /\ pc' = [pc EXCEPT ![p] = "idle"]
    /\ UNCHANGED <<store, nextUuid, event, resp, calls, before, served, tables>>

\* the POST of row k settles: true for a response that is ok, false otherwise
RequestSettled(p, k, ok) ==
    /\ pc[p] = "batch"
    /\ k \in DOMAIN local[p].requests
    /\ local[p].requests[k] = "pending"
    /\ local' = [local EXCEPT ![p].requests[k] = IF ok THEN "ok" ELSE "failed"]
    /\ UNCHANGED <<store, nextUuid, pc, event, resp, calls, before, served, tables>>

\* variant: every request of the batch is counted as processed
BatchSettledCountingAll(p) ==
    /\ pc[p] = "batch"
    /\ LET l == local[p]
           length == Len(l.requests)
           batch == {k \in 1..length : l.i < k /\ k <= l.i + batchSize}
           successCount == Cardinality(batch)
           totalProcessed == l.totalProcessed + successCount
       IN  /\ \A k \in batch : l.requests[k] # "pending"
           /\ local' = [local EXCEPT ![p] =
                  [l EXCEPT !.totalProcessed = totalProcessed,
                            !.importProgress.processed = totalProcessed]]
           /\ pc' = [pc EXCEPT ![p] = IF l.i + batchSize < length
                                      THEN "delay" ELSE "fetchTransactions"]
    /\ UNCHANGED <<store, nextUuid, event, resp, calls, before, served, tables>>

\* Promise.all of the batch is fulfilled: the successes are added to processed;
\* then the delay before the next batch, or the refresh after the last
BatchSettled(p) ==
    /\ pc[p] = "batch"
    /\ LET l == local[p]
           length == Len(l.requests)
           batch == {k \in 1..length : l.i < k /\ k <= l.i + batchSize}
           successCount == Cardinality({k \in batch : l.requests[k] = "ok"})
           totalProcessed == l.totalProcessed + successCount
       IN  /\ \A k \in batch : l.requests[k] # "pending"
           /\ local' = [local EXCEPT ![p] =
                  [l EXCEPT !.totalProcessed = totalProcessed,
                            !.importProgress.processed = totalProcessed]]
           /\ pc' = [pc EXCEPT ![p] = IF l.i + batchSize < length
                                      THEN "delay" ELSE "fetchTransactions"]
    /\ UNCHANGED <<store, nextUuid, event, resp, calls, before, served, tables>>

\* the timer of the delay fires: i += batchSize and the next batch is sent
NextBatch(p) ==
    /\ pc[p] = "delay"
    /\ LET l == local[p]
           i == l.i + batchSize
       IN  local' = [local EXCEPT ![p] =
               [l EXCEPT !.i = i,
                         !.requests = [k \in DOMAIN l.requests |->
                             IF i < k /\ k <= i + batchSize THEN "pending"
                             ELSE l.requests[k]]]]
    /\ pc' = [pc EXCEPT ![p] = "batch"]
    /\ UNCHANGED <<store, nextUuid, event, resp, calls, before, served, tables>>

\* fetchTransactions settles (it catches its own errors); the import is over
FetchTransactionsSettled(p, ok) ==
    /\ pc[p] = "fetchTransactions"
    /\ local' = [local EXCEPT ![p].importProgress.isImporting = FALSE]
    /\ pc' = [pc EXCEPT ![p] = "idle"]
    /\ UNCHANGED <<store, nextUuid, event, resp, calls, before, served, tables>>

ImportInit ==
    /\ store = {}
    /\ nextUuid = 0
    /\ pc = [p \in Invocations |-> "idle"]
    /\ event = [p \in Invocations |-> NoEvent]
    /\ local = [p \in Invocations |->
                   [importProgress |-> [total |-> 0, processed |-> 0,
                                        isImporting |-> FALSE],
                    requests |-> <<>>,
                    i |-> 0,
                    totalProcessed |-> 0]]
    /\ resp = [p \in Invocations |-> NoResponse]
    /\ calls = [p \in Invocations |-> <<>>]
    /\ before = [p \in Invocations |-> {}]
    /\ served = 0
    /\ tables = [accounts |-> {}, categories |-> {}]

ImportNext ==
    \E p \in Sequential :
        \/ \E valid \in 0..MaxRows : handleFileUpload(p, valid)
        \/ importTransactions(p)
        \* Papa.parse reports an error
        \/ /\ pc[p] = "parse"
           /\ local' = [local EXCEPT ![p].importProgress.isImporting = FALSE]
           /\ pc' = [pc EXCEPT ![p] = "idle"]
           /\ UNCHANGED <<store, nextUuid, event, resp, calls, before, served, tables>>
        \/ \E k \in 1..MaxRows, ok \in BOOLEAN : RequestSettled(p, k, ok)
        \/ BatchSettled(p)
        \/ NextBatch(p)
        \/ \E ok \in BOOLEAN : FetchTransactionsSettled(p, ok)

\* every step of a running import is taken in the end: the parser calls back,
\* each request settles, the timer fires
SpecImport ==
    /\ ImportInit
    /\ [][ImportNext]_vars
    /\ WF_vars(ImportNext /\ \E p \in Sequential : pc[p] # "idle")

Requests(p, status) == {k \in DOMAIN local[p].requests : local[p].requests[k] = status}

\* the requests in flight are at most 5, all of the batch at i, and every row
\* before it has settled while every row after it has not been sent
BatchesInTurn(p) ==
    LET l == local[p] IN
    /\ Cardinality(Requests(p, "pending")) <= 5
    /\ \A k \in DOMAIN l.requests :
           /\ l.requests[k] = "pending" => l.i < k /\ k <= l.i + 5
           /\ k <= l.i => l.requests[k] \in {"ok", "failed"}
           /\ k > l.i + 5 => l.requests[k] = "unsent"

Imported(p) ==
    /\ pc[p] = "idle"
    /\ Len(local[p].requests) = MaxRows
    /\ Requests(p, "unsent") = {}

SubmitRequest(editingTransaction, formData) ==
    IF Has(editingTransaction, "transactionId")
    THEN Event("PUT", <<"transactions", editingTransaction.transactionId>>,
               editingTransaction.transactionId, "", Json(formData))
    ELSE Event("POST", <<"transactions">>, "", "", Json(formData))

\* the fetch of handleDelete: DELETE transactions/{transactionId}
DeleteRequest(transactionId) ==
    Event("DELETE", <<"transactions", transactionId>>, transactionId, "", NoBody)

\* the UpdateCommand and the DeleteCommand of the handler are left out: no
\* request of the screen gets that far
ScreenNext ==
    \E p \in Sequential :
        LET null == [none |-> TRUE]
            FormData(t) == Pick(t, {"account", "date", "description", "currency",
                                    "amount", "fee", "category"})
        IN
        \/ Accepts(p) /\ \E formData \in ValidTransactionData :
               CreateTransaction(p, SubmitRequest(null, formData)) /\ UNCHANGED tables
        \/ \E ok \in BOOLEAN : CreateTransactionPut(p, ok) /\ UNCHANGED tables
        \/ Accepts(p) /\ \E transaction \in store :
               \E formData \in {FormData(transaction),
                                Merge(FormData(transaction), [amount |-> 75]),
                                Merge(FormData(transaction), [description |-> "rent"])} :
                   UpdateTransaction(p, SubmitRequest(transaction, formData))
                   /\ UNCHANGED tables
        \/ Accepts(p) /\ \E transaction \in store :
               DeleteTransaction(p, DeleteRequest(transaction.transactionId))
               /\ UNCHANGED tables
        \/ Complete(p) /\ UNCHANGED tables

SpecScreen == Init /\ [][ScreenNext]_vars

\* C30: an update or delete request of the screen for a listed transaction is
\* not answered 400, and answered 200 or 204 it has changed the table.
C30_ScreenRequestsAccepted ==
    \A p \in Invocations :
        (Returned(p, "updateTransaction") \/ Returned(p, "deleteTransaction")) =>
            /\ resp[p].statusCode # 400
            /\ resp[p].statusCode \in {200, 204} =>
                   \A r \in before[p] :
                       r.transactionId = event[p].pathParameters.transactionId =>
                           r \notin store \/ Returned(p, "updateTransaction")

====
